---- MODULE Spec2Model ----
(***************************************************************************)
(* Model of the zone service of paradata (src/app/api/zones.py): the zones *)
(* table with its lock fields, the audit log, and the handlers             *)
(* create_zone, checkout_object, release_object, update_zone, delete_zone  *)
(* and get_lock_status.                                                    *)
(*                                                                         *)
(* Time is counted in minutes and starts at 1, so that 0 can stand for a    *)
(* NULL timestamp.  A geometry is a one-dimensional polygon:   *)
(* the interval [lo, hi] measured in units of BUFFER_DISTANCE, so that the *)
(* erosion buffer(-BUFFER_DISTANCE) moves each end by one unit.            *)
(***************************************************************************)
EXTENDS Integers, Sequences, FiniteSets, TLC

VARIABLES
    zones,      \* the rows of table zones, indexed by id
    audit_log,  \* the rows of table audit_log, in insertion order
    now,        \* the wall clock, in minutes
    resp,       \* the request served by the last step and its outcome
    consumed,   \* history: <<zone, user>> whose last checkout was used up by an
                \* update; <<"verified", session>> whose recovery key was verified
    db          \* the other tables: zone_types, login_attempts, login_lockout,
                \* users (the rows registration inserts); logins: the login calls
                \* waiting for their user lookup; _recovery_key_sessions: the
                \* registration sessions held in memory; active_connections
                \* and sids_to_users: the two dictionaries of the
                \* ConnectionManager

vars == <<zones, audit_log, now, resp, consumed, db>>

(***************************************************************************)
(* Bounds of the model.                                                    *)
(***************************************************************************)
\* Spec: zones created, audit entries written, last instant of the clock
MaxZones == 1
MaxAudit == 2
MaxTime == 17
\* SpecGeom: zones created, audit entries written
GeomMaxZones == 2
GeomMaxAudit == 3
\* SpecFrame: zones and audit entries
FrameMaxZones == 2
FrameMaxAudit == 3
\* SpecQuota: zones created, audit entries written, last instant of the clock
QuotaMaxZones == 2
QuotaMaxAudit == 4
QuotaMaxTime == 122
\* SpecUndo: zones created, audit entries written, last instant of the clock
UndoMaxZones == 1
UndoMaxAudit == 3
UndoMaxTime == 61
\* SpecRead: zones created, audit entries written
ReadMaxZones == 1
ReadMaxAudit == 2
\* SpecOrder: zones created, audit entries written
OrderMaxZones == 1
OrderMaxAudit == 3
\* SpecTypes: zones created, audit entries written, rows of zone_types
TypesMaxZones == 1
TypesMaxAudit == 2
TypesMaxRows == 3
\* SpecScenario: zones created, audit entries written
ScenarioMaxZones == 1
ScenarioMaxAudit == 3
\* SpecRegistry: socket ids the server hands out
RegistryMaxSids == 3
\* SpecRegister: registration sessions alive at once, users created, last instant
RegisterMaxSessions == 2
RegisterMaxUsers == 1
RegisterMaxTime == 12
\* SpecLogin: rows of login_attempts, login calls in progress, last instant
LoginMaxAttempts == 7
LoginMaxInFlight == 2
LoginMaxTime == 17
\* SpecStructure: entries of a ring
RingMaxLen == 5
\* SpecRestore: zones created, audit entries written, last instant of the clock
RestoreMaxZones == 3
RestoreMaxAudit == 4
RestoreMaxTime == 122

(***************************************************************************)
(* Program constants.                                                      *)
(***************************************************************************)
NULL == 0
LOCK_DURATION_MINUTES == 15
GRACE_UPDATE_MINUTES == 120
GRACE_DELETE_MINUTES == 120
ROLLBACK_MINUTES == 30
AREA_EPSILON == 0
BUFFER_DISTANCE == 1
DAILY_CREATE_LIMIT == 2
DAILY_UPDATE_LIMIT == 1
DAILY_DELETE_LIMIT == 1
MinutesPerDay == 1440

Users == {1, 2}
GeomUsers == {1}

\* zone_types rows: id and code
ZoneTypeIds == {1, 2}

\* the rows init_db seeds into zone_types, indexed by id
ZoneTypeRow(code, name, description, color_hex) ==
    [code |-> code, name |-> name, description |-> description,
     color_hex |-> color_hex, deleted_at |-> NULL, deleted_by |-> NULL]
SeededZoneTypes ==
    <<ZoneTypeRow("TAKEOFF", "Decollage", "seeded", "#00c853"),
      ZoneTypeRow("LANDING", "Atterrissage", "seeded", "#d500f9")>>

\* SELECT code FROM zone_types WHERE id = ?
zone_type_code(id) ==
    IF id \in DOMAIN db.zone_types THEN db.zone_types[id].code ELSE "None"
TypeCodes == {"TAKEOFF", "LANDING", "BOGUS"}

NoStr == "None"
NoGeom == [type |-> "None", lo |-> 0, hi |-> 0]
Polygon(lo, hi) == [type |-> "Polygon", lo |-> lo, hi |-> hi]

Descs == {"d1"}

\* how far the clock moves between two requests
TickSteps == {LOCK_DURATION_MINUTES, LOCK_DURATION_MINUTES + 1}

UpdateActions == {"UPDATE", "GRACE_UPDATE", "UNDO_UPDATE", "GRACE_UPDATE_CHAIN"}

(***************************************************************************)
(* Geometry Validator                                                      *)
(***************************************************************************)
\* shape(g).buffer(-BUFFER_DISTANCE)
Erode(g) == [lo |-> g.lo + BUFFER_DISTANCE, hi |-> g.hi - BUFFER_DISTANCE]

IsEmpty(e) == e.hi <= e.lo

Min(a, b) == IF a < b THEN a ELSE b
Max(a, b) == IF a > b THEN a ELSE b

\* new_geom.intersection(existing).area
IntersectionArea(e1, e2) ==
    LET l == Max(e1.lo, e2.lo)
        h == Min(e1.hi, e2.hi)
    IN  IF h > l THEN h - l ELSE 0

\* the body of the loop of _geometry_intersects_existing for one row
ErodedOverlap(g1, g2) ==
    /\ ~IsEmpty(Erode(g1))
    /\ ~IsEmpty(Erode(g2))
    /\ IntersectionArea(Erode(g1), Erode(g2)) > AREA_EPSILON

\* mutant: the comparison of zone types is left out
IntersectsAnyType(rows, new_geom, new_zone_type_id, exclude_id) ==
    \E row_id \in DOMAIN rows :
        /\ rows[row_id].deleted_at = NULL
        /\ ~(exclude_id # NULL /\ row_id = exclude_id)
        /\ ErodedOverlap(new_geom, rows[row_id].geometry)

_geometry_intersects_existing(rows, new_geom, new_zone_type_id, exclude_id) ==
    \E row_id \in DOMAIN rows :
        /\ rows[row_id].deleted_at = NULL
        /\ ~(exclude_id # NULL /\ row_id = exclude_id)
        /\ rows[row_id].zone_type_id = new_zone_type_id
        /\ ErodedOverlap(new_geom, rows[row_id].geometry)

IsPolygonType(g) == g.type \in {"Polygon", "MultiPolygon"}

\* shapely validity of the one-dimensional polygon
_validate_geometry_structure(g) == g.lo < g.hi

\* 0 stands for the 422 raised on an unknown code
\* SELECT id FROM zone_types WHERE code = ? (code is UNIQUE)
_get_zone_type_id(code) ==
    IF \E id \in DOMAIN db.zone_types : db.zone_types[id].code = code
    THEN CHOOSE id \in DOMAIN db.zone_types : db.zone_types[id].code = code
    ELSE NULL

(***************************************************************************)
(* Audit trail and usage policy                                            *)
(***************************************************************************)
_audit_snapshot(geometry, zone_type, description) ==
    [geometry |-> geometry, zone_type |-> zone_type, description |-> description]

NoSnapshot == _audit_snapshot(NoGeom, NoStr, NoStr)

\* create_zone stores the bare geometry JSON as after_data
RawGeometry(g) == _audit_snapshot(g, "raw", "raw")

\* mutant: the entry does not name the acting user
AuditEntryAnonymous(object_id, action, user_id, before_data, after_data) ==
    [object_id |-> object_id, action |-> action, user_id |-> NULL,
     timestamp |-> now, before_data |-> before_data, after_data |-> after_data]

AuditEntry(object_id, action, user_id, before_data, after_data) ==
    [object_id |-> object_id, action |-> action, user_id |-> user_id,
     timestamp |-> now, before_data |-> before_data, after_data |-> after_data]

date_of(t) == t \div MinutesPerDay

CountEntries(user_id, action) ==
    Cardinality({i \in DOMAIN audit_log :
        /\ audit_log[i].user_id = user_id
        /\ audit_log[i].action = action
        /\ date_of(audit_log[i].timestamp) = date_of(now)})

get_daily_usage(user_id, action) ==
    IF action = "CREATE"
    THEN Max(0, CountEntries(user_id, "CREATE") - CountEntries(user_id, "GRACE_DELETE"))
    ELSE CountEntries(user_id, action)

DailyLimit(action) ==
    IF action = "CREATE" THEN DAILY_CREATE_LIMIT
    ELSE IF action = "UPDATE" THEN DAILY_UPDATE_LIMIT
    ELSE DAILY_DELETE_LIMIT

check_daily_quota(user_id, action) ==
    get_daily_usage(user_id, action) < DailyLimit(action)

\* mutant: the creator test is left out
GraceForAnyUser(obj, user_id, minutes) ==
    now - obj.created_at <= minutes

_is_within_creation_grace(obj, user_id, minutes) ==
    /\ obj.created_by = user_id
    /\ now - obj.created_at <= minutes

\* the rows ORDER BY timestamp DESC LIMIT 1 can return: any row of the
\* selection that carries the greatest timestamp
MostRecent(S) ==
    {i \in S : \A j \in S : audit_log[j].timestamp <= audit_log[i].timestamp}

RollbackRows(object_id) ==
    MostRecent({i \in DOMAIN audit_log :
        audit_log[i].object_id = object_id /\ audit_log[i].action = "UPDATE"})

ChainRows(object_id) ==
    MostRecent({i \in DOMAIN audit_log : audit_log[i].object_id = object_id})

\* row = 0 stands for an empty selection
_is_update_rollback(row, user_id, target_snapshot) ==
    /\ row # 0
    /\ audit_log[row].user_id = user_id
    /\ ~(now - audit_log[row].timestamp > ROLLBACK_MINUTES)
    /\ audit_log[row].before_data # NoSnapshot
    /\ audit_log[row].before_data = target_snapshot

_is_update_chain_by_sequence(row, user_id) ==
    /\ row # 0
    /\ audit_log[row].user_id = user_id
    /\ audit_log[row].action \in UpdateActions

OrNone(S) == IF S = {} THEN {0} ELSE S

(***************************************************************************)
(* Lock Manager predicates                                                 *)
(***************************************************************************)
\* mutant: the expiry comparison is reversed
CheckoutBlockedReversed(obj, user_id, t) ==
    /\ obj.locked_by # NULL
    /\ obj.locked_by # user_id
    /\ obj.lock_expires_at # NULL
    /\ obj.lock_expires_at < t

\* mutant: the holder test is inverted
CheckoutBlockedSameUser(obj, user_id, t) ==
    /\ obj.locked_by # NULL
    /\ obj.locked_by = user_id
    /\ obj.lock_expires_at # NULL
    /\ obj.lock_expires_at > t

\* mutant: the lock of another user blocks whatever its expiry
CheckoutBlockedForever(obj, user_id, t) ==
    /\ obj.locked_by # NULL
    /\ obj.locked_by # user_id

\* checkout_object: "already locked by someone else"
CheckoutBlocked(obj, user_id, t) ==
    /\ obj.locked_by # NULL
    /\ obj.locked_by # user_id
    /\ obj.lock_expires_at # NULL
    /\ obj.lock_expires_at > t

\* mutant: an unlocked zone passes the holder test
NotLockedByOther(obj, user_id) ==
    obj.locked_by # NULL /\ obj.locked_by # user_id

\* release_object: "check if locked by this user"
NotLockedByUser(obj, user_id) == obj.locked_by # user_id

\* mutant: an unlocked zone passes the holder test of update
UpdateNotLockedByOther(obj, user_id) ==
    obj.locked_by # NULL /\ obj.locked_by # user_id

\* update_zone: "check lock"
UpdateNotLockedByUser(obj, user_id) == obj.locked_by # user_id

\* mutant: the expiry comparison of update is reversed
UpdateLockExpiredReversed(obj, t) ==
    /\ obj.lock_expires_at # NULL
    /\ obj.lock_expires_at > t

\* update_zone: "check lock expiry"
UpdateLockExpired(obj, t) ==
    /\ obj.lock_expires_at # NULL
    /\ obj.lock_expires_at < t

\* get_lock_status: the branch returning {"locked": False}
StatusLockExpired(obj, t) ==
    /\ obj.locked_by # NULL
    /\ obj.lock_expires_at # NULL
    /\ obj.lock_expires_at < t

(***************************************************************************)
(* Responses                                                               *)
(***************************************************************************)
NoReq == [geometry |-> NoGeom, zone_type |-> NoStr, description |-> NoStr]

Response(op, user_id, object_id, req, status, detail, event) ==
    [op |-> op, user |-> user_id, object_id |-> object_id, req |-> req,
     status |-> status, detail |-> detail, event |-> event,
     locked |-> FALSE, locked_by |-> NULL, lock_expires_at |-> NULL]

NoResp == Response("none", NULL, NULL, NoReq, 0, "", "none")

\* mutant: the audit entry is written before the check that refuses
FailAfterAudit(r) ==
    /\ resp' = r
    /\ audit_log' = Append(audit_log,
            [object_id |-> r.object_id, action |-> "UPDATE", user_id |-> r.user,
             timestamp |-> now,
             before_data |-> [geometry |-> NoGeom, zone_type |-> NoStr,
                              description |-> NoStr],
             after_data |-> [geometry |-> NoGeom, zone_type |-> NoStr,
                             description |-> NoStr]])
    /\ UNCHANGED <<zones, now, consumed, db>>

\* an HTTPException raised before any write: nothing is stored or emitted
Fail(r) ==
    /\ resp' = r
    /\ UNCHANGED <<zones, audit_log, now, consumed, db>>

\* the tables as init_db leaves them
InitDb ==
    [zone_types |-> SeededZoneTypes, login_attempts |-> <<>>, login_lockout |-> {},
     logins |-> {}, users |-> {}, _recovery_key_sessions |-> {},
     active_connections |-> <<>>, sids_to_users |-> <<>>]

Init ==
    /\ zones = <<>>
    /\ audit_log = <<>>
    /\ now = 1
    /\ resp = NoResp
    /\ consumed = {}
    /\ db = InitDb

Tick ==
    \E d \in TickSteps :
        /\ now + d <= MaxTime
        /\ now' = now + d
        /\ resp' = NoResp
        /\ UNCHANGED <<zones, audit_log, consumed, db>>

(***************************************************************************)
(* Handlers                                                                *)
(***************************************************************************)
NewZone(geometry, zone_type_id, description, user_id) ==
    [geometry |-> geometry, zone_type_id |-> zone_type_id,
     description |-> description,
     created_by |-> user_id, created_at |-> now,
     updated_by |-> NULL, updated_at |-> NULL,
     deleted_by |-> NULL, deleted_at |-> NULL,
     locked_by |-> NULL, lock_expires_at |-> NULL]

\* POST /zones
create_zone(req, user_id) ==
    LET R(status, detail, event) ==
            Response("create", user_id, NULL, req, status, detail, event)
        zone_type_id == _get_zone_type_id(req.zone_type)
    IN  IF ~check_daily_quota(user_id, "CREATE")
        THEN Fail(R(429, "quota", "none"))
        ELSE IF ~IsPolygonType(req.geometry)
        THEN Fail(R(422, "geometry", "none"))
        ELSE IF ~_validate_geometry_structure(req.geometry)
        THEN Fail(R(422, "structure", "none"))
        ELSE IF zone_type_id = NULL
        THEN Fail(R(422, "zone_type", "none"))
        ELSE IF _geometry_intersects_existing(zones, req.geometry, zone_type_id, NULL)
        THEN Fail(R(422, "overlap", "none"))
        ELSE /\ zones' = Append(zones,
                    NewZone(req.geometry, zone_type_id, req.description, user_id))
             /\ audit_log' = Append(audit_log,
                    AuditEntry(Len(zones) + 1, "CREATE", user_id,
                               NoSnapshot, RawGeometry(req.geometry)))
             /\ resp' = [R(200, "", "zone_created") EXCEPT
                            !.object_id = Len(zones) + 1]
             /\ UNCHANGED <<now, consumed, db>>

\* POST /zones/{id}/checkout
checkout_object(object_id, user_id) ==
    LET R(status, detail, event) ==
            Response("checkout", user_id, object_id, NoReq, status, detail, event)
        lock_expires == now + LOCK_DURATION_MINUTES
    IN  IF object_id \notin DOMAIN zones
        THEN Fail(R(404, "not_found", "none"))
        ELSE IF CheckoutBlocked(zones[object_id], user_id, now)
        THEN Fail([R(403, "locked", "none") EXCEPT
                        !.locked_by = zones[object_id].locked_by])
        ELSE /\ zones' = [zones EXCEPT ![object_id].locked_by = user_id,
                                       ![object_id].lock_expires_at = lock_expires]
             /\ resp' = [R(200, "", "zone_locked") EXCEPT
                            !.locked_by = user_id,
                            !.lock_expires_at = lock_expires]
             /\ consumed' = consumed \ {<<object_id, user_id>>}
             /\ UNCHANGED <<audit_log, now, db>>

\* POST /zones/{id}/release
release_object(object_id, user_id) ==
    LET R(status, detail, event) ==
            Response("release", user_id, object_id, NoReq, status, detail, event)
    IN  IF object_id \notin DOMAIN zones
        THEN Fail(R(404, "not_found", "none"))
        ELSE IF NotLockedByUser(zones[object_id], user_id)
        THEN Fail(R(403, "not_locked", "none"))
        ELSE /\ zones' = [zones EXCEPT ![object_id].locked_by = NULL,
                                       ![object_id].lock_expires_at = NULL]
             /\ resp' = R(200, "", "zone_released")
             /\ UNCHANGED <<audit_log, now, consumed, db>>

\* GET /zones/{id}/lock
get_lock_status(object_id) ==
    LET R(status, detail) ==
            Response("lock_status", NULL, object_id, NoReq, status, detail, "none")
    IN  /\ UNCHANGED <<zones, audit_log, now, consumed, db>>
        /\ IF object_id \notin DOMAIN zones
           THEN resp' = R(404, "not_found")
           ELSE IF StatusLockExpired(zones[object_id], now)
           THEN resp' = R(200, "expired")
           ELSE resp' = [R(200, "") EXCEPT
                    !.locked = (zones[object_id].locked_by # NULL),
                    !.locked_by = zones[object_id].locked_by,
                    !.lock_expires_at = zones[object_id].lock_expires_at]

\* mutant: every update is logged under the plain tag
action_label_plain(is_rollback, is_update_grace, is_chain_grace) == "UPDATE"

\* the action tag update_zone writes to the audit log
action_label(is_rollback, is_update_grace, is_chain_grace) ==
    IF is_rollback THEN "UNDO_UPDATE"
    ELSE IF is_update_grace THEN "GRACE_UPDATE"
    ELSE IF is_chain_grace THEN "GRACE_UPDATE_CHAIN"
    ELSE "UPDATE"

\* mutant: the request's value is written even when the field is omitted
MergeFieldOverwrite(supplied, stored, omitted) == supplied

\* update_zone: a field of the request, or the stored value when it is omitted
MergeField(supplied, stored, omitted) ==
    IF supplied # omitted THEN supplied ELSE stored

\* update_zone: the overlap test runs only when the request carries a geometry
UpdateOverlaps(rows, object_id, req, new_zone_type_id) ==
    /\ req.geometry # NoGeom
    /\ _geometry_intersects_existing(rows, req.geometry, new_zone_type_id, object_id)

\* mutant: the update is admitted against the CREATE budget
UpdateAdmittedOnCreateBudget(user_id, is_rollback, is_update_grace, is_chain_grace) ==
    \/ is_rollback \/ is_update_grace \/ is_chain_grace
    \/ check_daily_quota(user_id, "CREATE")

\* mutant: the update is written without asking the quota
UpdateAdmittedUnchecked(user_id, is_rollback, is_update_grace, is_chain_grace) == TRUE

\* update_zone: "check daily quota unless this is a rollback or grace update"
UpdateAdmitted(user_id, is_rollback, is_update_grace, is_chain_grace) ==
    \/ is_rollback \/ is_update_grace \/ is_chain_grace
    \/ check_daily_quota(user_id, "UPDATE")

\* PUT /zones/{id}
update_zone(object_id, req, user_id) ==
    LET R(status, detail, event) ==
            Response("update", user_id, object_id, req, status, detail, event)
    IN  IF object_id \notin DOMAIN zones
        THEN Fail(R(404, "not_found", "none"))
        ELSE
        LET obj == zones[object_id]
            new_geometry == MergeField(req.geometry, obj.geometry, NoGeom)
            new_zone_type_id == IF req.zone_type # NoStr
                                THEN _get_zone_type_id(req.zone_type)
                                ELSE obj.zone_type_id
            new_description == MergeField(req.description, obj.description, NoStr)
            before_snapshot == _audit_snapshot(obj.geometry,
                                   zone_type_code(obj.zone_type_id), obj.description)
            after_snapshot == _audit_snapshot(new_geometry,
                                   zone_type_code(new_zone_type_id), new_description)
            is_update_grace == _is_within_creation_grace(obj, user_id, GRACE_UPDATE_MINUTES)
        IN  IF UpdateNotLockedByUser(obj, user_id)
            THEN Fail(R(403, "not_locked", "none"))
            ELSE IF UpdateLockExpired(obj, now)
            THEN Fail(R(409, "expired", "none"))
            ELSE IF new_zone_type_id = NULL
            THEN Fail(R(422, "zone_type", "none"))
            ELSE IF req.geometry # NoGeom /\ ~IsPolygonType(req.geometry)
            THEN Fail(R(422, "geometry", "none"))
            ELSE IF req.geometry # NoGeom /\ ~_validate_geometry_structure(req.geometry)
            THEN Fail(R(422, "structure", "none"))
            ELSE IF UpdateOverlaps(zones, object_id, req, new_zone_type_id)
            THEN Fail(R(422, "overlap", "none"))
            ELSE
            \E rb \in OrNone(RollbackRows(object_id)), ch \in OrNone(ChainRows(object_id)) :
                LET is_rollback == _is_update_rollback(rb, user_id, after_snapshot)
                    is_chain_grace == _is_update_chain_by_sequence(ch, user_id)
                    label == action_label(is_rollback, is_update_grace, is_chain_grace)
                IN  IF ~UpdateAdmitted(user_id, is_rollback, is_update_grace,
                                       is_chain_grace)
                    THEN Fail(R(429, "quota", "none"))
                    ELSE /\ zones' = [zones EXCEPT ![object_id] =
                                [obj EXCEPT !.geometry = new_geometry,
                                            !.zone_type_id = new_zone_type_id,
                                            !.description = new_description,
                                            !.updated_by = user_id,
                                            !.updated_at = now,
                                            !.locked_by = NULL,
                                            !.lock_expires_at = NULL]]
                         /\ audit_log' = Append(audit_log,
                                AuditEntry(object_id, label, user_id,
                                           before_snapshot, after_snapshot))
                         /\ resp' = [R(200, "", "zone_updated") EXCEPT !.detail = label]
                         /\ consumed' = consumed \cup {<<object_id, user_id>>}
                         /\ UNCHANGED <<now, db>>

\* the answer of a read endpoint: data holds the ids of the zones returned
ReadResponse(op, object_id, status, data) ==
    [op |-> op, user |-> NULL, object_id |-> object_id, req |-> NoReq,
     status |-> status, detail |-> "", event |-> "none", data |-> data]

\* GET /zones/{id}
get_zone(object_id) ==
    /\ UNCHANGED <<zones, audit_log, now, consumed, db>>
    /\ IF object_id \in DOMAIN zones /\ zones[object_id].deleted_at = NULL
       THEN resp' = ReadResponse("get", object_id, 200, {object_id})
       ELSE resp' = ReadResponse("get", object_id, 404, {})

\* GET /zones
list_zones ==
    /\ UNCHANGED <<zones, audit_log, now, consumed, db>>
    /\ resp' = ReadResponse("list", NULL, 200,
                    {z \in DOMAIN zones : zones[z].deleted_at = NULL})

\* geometry.contains(point): the boundary is not part of the interior
Contains(g, point) == g.lo < point /\ point < g.hi

\* GET /zones/by-coordinate
get_zones_by_coordinate(point) ==
    /\ UNCHANGED <<zones, audit_log, now, consumed, db>>
    /\ resp' = ReadResponse("by_coordinate", NULL, 200,
                    {z \in DOMAIN zones :
                        zones[z].deleted_at = NULL /\ Contains(zones[z].geometry, point)})

\* mutant: every delete is logged under the plain tag
delete_label_plain(grace_delete) == "DELETE"

\* the action tag delete_zone writes to the audit log
delete_label(grace_delete) == IF grace_delete THEN "GRACE_DELETE" ELSE "DELETE"

\* DELETE /zones/{id}
delete_zone(object_id, user_id) ==
    LET R(status, detail, event) ==
            Response("delete", user_id, object_id, NoReq, status, detail, event)
    IN  IF object_id \notin DOMAIN zones
        THEN Fail(R(404, "not_found", "none"))
        ELSE
        LET obj == zones[object_id]
            grace_delete == _is_within_creation_grace(obj, user_id, GRACE_DELETE_MINUTES)
            label == delete_label(grace_delete)
            before_snapshot == _audit_snapshot(obj.geometry,
                                   zone_type_code(obj.zone_type_id), obj.description)
        IN  IF ~grace_delete /\ ~check_daily_quota(user_id, "DELETE")
            THEN Fail(R(429, "quota", "none"))
            ELSE /\ zones' = [zones EXCEPT ![object_id].deleted_at = now,
                                           ![object_id].deleted_by = user_id,
                                           ![object_id].locked_by = NULL,
                                           ![object_id].lock_expires_at = NULL]
                 /\ audit_log' = Append(audit_log,
                        AuditEntry(object_id, label, user_id, before_snapshot, NoSnapshot))
                 /\ resp' = [R(200, "", "zone_deleted") EXCEPT !.detail = label]
                 /\ UNCHANGED <<now, consumed, db>>

(***************************************************************************)
(* Zone types                                                              *)
(***************************************************************************)
\* the answer of a zone type endpoint
TypeResponse(op, user_id, payload, status, detail) ==
    [op |-> op, user |-> user_id, object_id |-> NULL, req |-> NoReq,
     status |-> status, detail |-> detail, event |-> "none", payload |-> payload]

\* code.strip().upper(), on the codes the clients send
NormCode(code) == IF code = " takeoff " THEN "TAKEOFF" ELSE code

\* re.fullmatch("[A-Z0-9_]+", norm_code), on the codes the clients send
CodeMatches(norm_code) == norm_code \in {"TAKEOFF", "LANDING", "WINCH_1"}

\* re.fullmatch("#[0-9A-Fa-f]{6}", color_hex.strip()), on the colours sent
ColorMatches(color_hex) == color_hex \in {"#00c853", "#d500f9"}

\* the first check of _validate_zone_type_inputs that fails, "" if none does
_validate_zone_type_inputs(payload) ==
    IF payload.code = "" THEN "code_required"
    ELSE IF payload.name = "" THEN "name_required"
    ELSE IF ~CodeMatches(NormCode(payload.code)) THEN "code_format"
    ELSE IF ~ColorMatches(payload.color) THEN "color_format"
    ELSE IF payload.description = "" THEN "description_required"
    ELSE ""

TypeFail(r) ==
    /\ resp' = r
    /\ UNCHANGED <<zones, audit_log, now, consumed, db>>

\* the ids of the rows of zone_types with this code: live, tombstoned
LiveTypes(code) ==
    {id \in DOMAIN db.zone_types :
        db.zone_types[id].code = code /\ db.zone_types[id].deleted_at = NULL}
DeletedTypes(code) ==
    {id \in DOMAIN db.zone_types :
        db.zone_types[id].code = code /\ db.zone_types[id].deleted_at # NULL}

\* POST /zone-types
create_zone_type(payload, user_id) ==
    LET R(status, detail) == TypeResponse("create_type", user_id, payload, status, detail)
        failed == _validate_zone_type_inputs(payload)
        code == NormCode(payload.code)
    IN  IF failed # ""
        THEN TypeFail(R(422, failed))
        ELSE IF LiveTypes(code) # {}
        THEN TypeFail(R(409, "exists"))
        ELSE /\ IF DeletedTypes(code) # {}
                THEN \E id \in DeletedTypes(code) :
                        db' = [db EXCEPT !.zone_types[id] =
                                ZoneTypeRow(code, payload.name, payload.description,
                                            payload.color)]
                ELSE db' = [db EXCEPT !.zone_types = Append(@,
                                ZoneTypeRow(code, payload.name, payload.description,
                                            payload.color))]
             /\ resp' = R(200, "")
             /\ UNCHANGED <<zones, audit_log, now, consumed>>

\* mutant: the count of zones that use the type is not taken
TypeInUseNever(zone_type_id) == FALSE

\* SELECT COUNT(*) FROM zones WHERE zone_type_id = ? AND deleted_at IS NULL
TypeInUse(zone_type_id) ==
    \E z \in DOMAIN zones :
        zones[z].zone_type_id = zone_type_id /\ zones[z].deleted_at = NULL

\* DELETE /zone-types/{code}
delete_zone_type(type_code, user_id) ==
    LET R(status, detail) ==
            TypeResponse("delete_type", user_id, [code |-> type_code],
                         status, detail)
    IN  IF LiveTypes(type_code) = {}
        THEN TypeFail(R(404, "not_found"))
        ELSE \E zone_type_id \in LiveTypes(type_code) :
            IF TypeInUse(zone_type_id)
            THEN TypeFail(R(400, "in_use"))
            ELSE /\ db' = [db EXCEPT !.zone_types =
                        [id \in DOMAIN db.zone_types |->
                            IF db.zone_types[id].code = type_code
                            THEN [db.zone_types[id] EXCEPT !.deleted_at = now,
                                                           !.deleted_by = user_id]
                            ELSE db.zone_types[id]]]
                 /\ resp' = R(200, "")
                 /\ UNCHANGED <<zones, audit_log, now, consumed>>

(***************************************************************************)
(* Requests the clients send.  Spec exercises the lock protocol: two users, *)
(* a moving clock, every new zone carries the first polygon and an update  *)
(* changes the description only.  SpecGeom exercises the geometry          *)
(* validator: one user draws geometry and type freely at one instant.      *)
(***************************************************************************)
NotAPolygon == [type |-> "Point", lo |-> 0, hi |-> 0]

CreateRequests ==
    [geometry : {Polygon(0, 6)}, zone_type : {"TAKEOFF", "LANDING"},
     description : {NoStr}]

UpdateRequests ==
    [geometry : {NoGeom}, zone_type : {NoStr}, description : Descs]

\* two polygons that share a strip no wider than the erosion removes (each
\* overlaps itself), a geometry that is not a polygon, an unknown type code
GeomCreateRequests ==
    [geometry : {Polygon(0, 6), NotAPolygon}, zone_type : TypeCodes,
     description : {NoStr}]

GeomUpdateRequests ==
    [geometry : {Polygon(0, 6), Polygon(5, 11), NoGeom},
     zone_type : {"TAKEOFF", "LANDING", NoStr},
     description : {NoStr}]

\* a step is taken only while the tables stay within the bounds
Within(maxZones, maxAudit) ==
    Len(zones') <= maxZones /\ Len(audit_log') <= maxAudit

\* the ids a client may address: those that can exist and one that cannot
ZoneIds == 1 .. (MaxZones + 1)
GeomZoneIds == 1 .. GeomMaxZones

CreateZone ==
    \E req \in CreateRequests, u \in Users :
        create_zone(req, u) /\ Within(MaxZones, MaxAudit)
CheckoutObject == \E z \in ZoneIds, u \in Users : checkout_object(z, u)
ReleaseObject == \E z \in ZoneIds, u \in Users : release_object(z, u)
UpdateZone ==
    \E z \in ZoneIds, req \in UpdateRequests, u \in Users :
        update_zone(z, req, u) /\ Within(MaxZones, MaxAudit)
DeleteZone ==
    \E z \in ZoneIds, u \in Users :
        delete_zone(z, u) /\ Within(MaxZones, MaxAudit)
GetLockStatus == \E z \in ZoneIds : get_lock_status(z)

Next ==
    \/ CreateZone
    \/ CheckoutObject
    \/ ReleaseObject
    \/ UpdateZone
    \/ DeleteZone
    \/ GetLockStatus
    \/ Tick

Spec == Init /\ [][Next]_vars

GeomCreateZone ==
    \E req \in GeomCreateRequests, u \in GeomUsers :
        create_zone(req, u) /\ Within(GeomMaxZones, GeomMaxAudit)
GeomCheckoutObject == \E z \in GeomZoneIds, u \in GeomUsers : checkout_object(z, u)
GeomUpdateZone ==
    \E z \in GeomZoneIds, req \in GeomUpdateRequests, u \in GeomUsers :
        update_zone(z, req, u) /\ Within(GeomMaxZones, GeomMaxAudit)
GeomDeleteZone ==
    \E z \in GeomZoneIds, u \in GeomUsers :
        delete_zone(z, u) /\ Within(GeomMaxZones, GeomMaxAudit)

NextGeom ==
    \/ GeomCreateZone
    \/ GeomCheckoutObject
    \/ GeomUpdateZone
    \/ GeomDeleteZone

SpecGeom == Init /\ [][NextGeom]_vars

(***************************************************************************)
(* SpecFrame exercises the merge of an update: zones with a description    *)
(* are created, locked and updated with every combination of a supplied    *)
(* and an omitted geometry, type and description.                          *)
(***************************************************************************)
FrameCreateRequests ==
    [geometry : {Polygon(0, 6)}, zone_type : {"TAKEOFF", "LANDING"},
     description : {"d1"}]

FrameUpdateRequests ==
    [geometry : {Polygon(5, 11), NoGeom}, zone_type : {"LANDING", NoStr},
     description : {NoStr, "d2"}]

FrameZoneIds == 1 .. FrameMaxZones

FrameCreateZone ==
    \E req \in FrameCreateRequests, u \in GeomUsers :
        create_zone(req, u) /\ Within(FrameMaxZones, FrameMaxAudit)
FrameCheckoutObject == \E z \in FrameZoneIds, u \in GeomUsers : checkout_object(z, u)
FrameUpdateZone ==
    \E z \in FrameZoneIds, req \in FrameUpdateRequests, u \in GeomUsers :
        update_zone(z, req, u) /\ Within(FrameMaxZones, FrameMaxAudit)

NextFrame ==
    \/ FrameCreateZone
    \/ FrameCheckoutObject
    \/ FrameUpdateZone

SpecFrame == Init /\ [][NextFrame]_vars

(***************************************************************************)
(* SpecQuota exercises the usage policy: two users, a clock that can leave *)
(* the creation grace window, one polygon and one new description.         *)
(***************************************************************************)
QuotaDescs == {"d2"}

QuotaCreateRequests ==
    [geometry : {Polygon(0, 6)}, zone_type : {"TAKEOFF"}, description : {"d1"}]

QuotaUpdateRequests ==
    [geometry : {NoGeom}, zone_type : {NoStr}, description : QuotaDescs]

QuotaTickSteps == {GRACE_UPDATE_MINUTES + 1}

QuotaZoneIds == 1 .. QuotaMaxZones

QuotaTick ==
    \E d \in QuotaTickSteps :
        /\ now + d <= QuotaMaxTime
        /\ now' = now + d
        /\ resp' = NoResp
        /\ UNCHANGED <<zones, audit_log, consumed, db>>

QuotaCreateZone ==
    \E req \in QuotaCreateRequests, u \in Users :
        create_zone(req, u) /\ Within(QuotaMaxZones, QuotaMaxAudit)
\* editing sessions do not interleave: a client asks for a lock only while
\* no zone is checked out
QuotaCheckoutObject ==
    \E z \in QuotaZoneIds, u \in Users :
        /\ \A x \in DOMAIN zones : zones[x].locked_by = NULL
        /\ checkout_object(z, u)
QuotaUpdateZone ==
    \E z \in QuotaZoneIds, req \in QuotaUpdateRequests, u \in Users :
        update_zone(z, req, u) /\ Within(QuotaMaxZones, QuotaMaxAudit)
QuotaDeleteZone ==
    \E z \in QuotaZoneIds, u \in Users :
        delete_zone(z, u) /\ Within(QuotaMaxZones, QuotaMaxAudit)

NextQuota ==
    \/ QuotaCreateZone
    \/ QuotaCheckoutObject
    \/ QuotaUpdateZone
    \/ QuotaDeleteZone
    \/ QuotaTick

SpecQuota == Init /\ [][NextQuota]_vars

(***************************************************************************)
(* SpecUndo exercises the rollback and chain exemptions of update: two     *)
(* users rewrite the description of one zone back and forth, at one        *)
(* instant or 30 minutes apart.                                            *)
(***************************************************************************)
UndoDescs == {"d1", "d2"}

UndoCreateRequests ==
    [geometry : {Polygon(0, 6)}, zone_type : {"TAKEOFF"}, description : {"d1"}]

UndoUpdateRequests ==
    [geometry : {NoGeom}, zone_type : {NoStr}, description : UndoDescs]

UndoZoneIds == 1 .. UndoMaxZones

UndoTick ==
    /\ now + ROLLBACK_MINUTES <= UndoMaxTime
    /\ now' = now + ROLLBACK_MINUTES
    /\ resp' = NoResp
    /\ UNCHANGED <<zones, audit_log, consumed, db>>

UndoCreateZone ==
    \E req \in UndoCreateRequests, u \in Users :
        create_zone(req, u) /\ Within(UndoMaxZones, UndoMaxAudit)
UndoCheckoutObject == \E z \in UndoZoneIds, u \in Users : checkout_object(z, u)
UndoUpdateZone ==
    \E z \in UndoZoneIds, req \in UndoUpdateRequests, u \in Users :
        update_zone(z, req, u) /\ Within(UndoMaxZones, UndoMaxAudit)
UndoDeleteZone ==
    \E z \in UndoZoneIds, u \in Users :
        delete_zone(z, u) /\ Within(UndoMaxZones, UndoMaxAudit)

NextUndo ==
    \/ UndoCreateZone
    \/ UndoCheckoutObject
    \/ UndoUpdateZone
    \/ UndoDeleteZone
    \/ UndoTick

SpecUndo == Init /\ [][NextUndo]_vars

(***************************************************************************)
(* SpecRead exercises the lookups by id and the read endpoints: zones of    *)
(* both types are created, locked, updated and tombstoned at one instant,  *)
(* and read by id, as a list and by coordinate.                            *)
(***************************************************************************)
\* the ids a client may address: those that can exist and one that cannot
ReadZoneIds == 1 .. (ReadMaxZones + 1)

\* a coordinate inside the polygon, one on its boundary, one outside
Points == {3, 6, 8}

ReadCreateZone ==
    \E req \in CreateRequests, u \in Users :
        create_zone(req, u) /\ Within(ReadMaxZones, ReadMaxAudit)
ReadCheckoutObject == \E z \in ReadZoneIds, u \in Users : checkout_object(z, u)
ReadReleaseObject == \E z \in ReadZoneIds, u \in Users : release_object(z, u)
ReadUpdateZone ==
    \E z \in ReadZoneIds, req \in UpdateRequests, u \in Users :
        update_zone(z, req, u) /\ Within(ReadMaxZones, ReadMaxAudit)
ReadDeleteZone ==
    \E z \in ReadZoneIds, u \in Users :
        delete_zone(z, u) /\ Within(ReadMaxZones, ReadMaxAudit)
GetZone == \E z \in ReadZoneIds : get_zone(z)
ListZones == list_zones
GetZonesByCoordinate == \E point \in Points : get_zones_by_coordinate(point)

NextRead ==
    \/ ReadCreateZone
    \/ ReadCheckoutObject
    \/ ReadReleaseObject
    \/ ReadUpdateZone
    \/ ReadDeleteZone
    \/ GetZone
    \/ ListZones
    \/ GetZonesByCoordinate

SpecRead == Init /\ [][NextRead]_vars

(***************************************************************************)
(* The representation of a zone in the answers of the reads and in the     *)
(* events zone_created and zone_updated.                                   *)
(***************************************************************************)
NoLock == [locked_by |-> NULL, lock_expires_at |-> NULL]

\* serialize_zone: the lock object of the ZoneResponse built from a row
serialize_zone(row) ==
    [created_by |-> row.created_by, updated_by |-> row.updated_by,
     description |-> row.description, geometry |-> row.geometry,
     zone_type |-> zone_type_code(row.zone_type_id),
     lock |-> IF row.locked_by # NULL
              THEN [locked_by |-> row.locked_by,
                    lock_expires_at |-> row.lock_expires_at]
              ELSE NoLock]

(***************************************************************************)
(* SpecView: zones are created and locked, the clock runs past the end of  *)
(* the locks, and the zones are read through every read endpoint.          *)
(***************************************************************************)
NextView ==
    \/ ReadCreateZone
    \/ ReadCheckoutObject
    \/ ReadUpdateZone
    \/ Tick
    \/ GetZone
    \/ ListZones
    \/ GetZonesByCoordinate
    \/ GetLockStatus

SpecView == Init /\ [][NextView]_vars

(***************************************************************************)
(* SpecTypes exercises the zone types: types are created, tombstoned and   *)
(* restored while zones that use them are created, edited and deleted.     *)
(***************************************************************************)
TypePayload(code, name, color, description) ==
    [code |-> code, name |-> name, color |-> color, description |-> description]

\* two well-formed payloads and one that fails each check of the validator
TypePayloads ==
    {TypePayload(" takeoff ", "n1", "#00c853", "d1"),
     TypePayload("WINCH_1", "n1", "#00c853", "d1"),
     TypePayload("", "n1", "#00c853", "d1"),
     TypePayload("WINCH_1", "", "#00c853", "d1"),
     TypePayload("take-off", "n1", "#00c853", "d1"),
     TypePayload("WINCH_1", "n1", "green", "d1"),
     TypePayload("WINCH_1", "n1", "#00c853", "")}

\* the user who edits the zone types
TypeEditors == {1}

DeletableCodes == {"TAKEOFF", "WINCH_1", "BOGUS"}

TypesCreateRequests ==
    [geometry : {Polygon(0, 6)}, zone_type : {"TAKEOFF", "WINCH_1"},
     description : {NoStr}]

TypesZoneIds == 1 .. TypesMaxZones

CreateZoneType ==
    \E payload \in TypePayloads, u \in TypeEditors :
        /\ create_zone_type(payload, u)
        /\ Len(db'.zone_types) <= TypesMaxRows
DeleteZoneType ==
    \E code \in DeletableCodes, u \in TypeEditors : delete_zone_type(code, u)
TypesCreateZone ==
    \E req \in TypesCreateRequests, u \in Users :
        create_zone(req, u) /\ Within(TypesMaxZones, TypesMaxAudit)
TypesCheckoutObject ==
    \E z \in TypesZoneIds, u \in Users : checkout_object(z, u)
TypesUpdateZone ==
    \E z \in TypesZoneIds, req \in UpdateRequests, u \in Users :
        update_zone(z, req, u) /\ Within(TypesMaxZones, TypesMaxAudit)
TypesDeleteZone ==
    \E z \in TypesZoneIds, u \in Users :
        delete_zone(z, u) /\ Within(TypesMaxZones, TypesMaxAudit)

NextTypes ==
    \/ CreateZoneType
    \/ DeleteZoneType
    \/ TypesCreateZone
    \/ TypesCheckoutObject
    \/ TypesUpdateZone
    \/ TypesDeleteZone

SpecTypes == Init /\ [][NextTypes]_vars

(***************************************************************************)
(* SpecScenario walks the end-to-end scenario: the type TAKEOFF is         *)
(* tombstoned and created again, a zone of it is created, locked, edited   *)
(* and deleted by two users at one instant.                                *)
(***************************************************************************)
ScenarioPayloads == {TypePayload("TAKEOFF", "n1", "#00c853", "d1")}

ScenarioCreateRequests ==
    [geometry : {Polygon(0, 6)}, zone_type : {"TAKEOFF"}, description : {NoStr}]

ScenarioZoneIds == 1 .. ScenarioMaxZones

ScenarioCreateZoneType ==
    \E payload \in ScenarioPayloads, u \in TypeEditors : create_zone_type(payload, u)
ScenarioDeleteZoneType ==
    \E u \in TypeEditors : delete_zone_type("TAKEOFF", u)
ScenarioCreateZone ==
    \E req \in ScenarioCreateRequests, u \in Users :
        create_zone(req, u) /\ Within(ScenarioMaxZones, ScenarioMaxAudit)
ScenarioCheckoutObject ==
    \E z \in ScenarioZoneIds, u \in Users : checkout_object(z, u)
ScenarioUpdateZone ==
    \E z \in ScenarioZoneIds, req \in UpdateRequests, u \in Users :
        update_zone(z, req, u) /\ Within(ScenarioMaxZones, ScenarioMaxAudit)
ScenarioDeleteZone ==
    \E z \in ScenarioZoneIds, u \in Users :
        delete_zone(z, u) /\ Within(ScenarioMaxZones, ScenarioMaxAudit)

NextScenario ==
    \/ ScenarioCreateZoneType
    \/ ScenarioDeleteZoneType
    \/ ScenarioCreateZone
    \/ ScenarioCheckoutObject
    \/ ScenarioUpdateZone
    \/ ScenarioDeleteZone

SpecScenario == Init /\ [][NextScenario]_vars

(***************************************************************************)
(* Login and account lockout.  login checks the lockout, then awaits the   *)
(* user lookup in a worker thread: other calls run in between.  What       *)
(* follows the lookup has no await and runs as one step.                   *)
(***************************************************************************)
MAX_LOGIN_ATTEMPTS == 5
LOCKOUT_DURATION_MINUTES == 15

hash_password(password) == <<"hash", password>>
verify_password(password, password_hash) == hash_password(password) = password_hash

\* table users: one registered account
UsersTable == {[username |-> "pilot", password_hash |-> hash_password("test123")]}
Usernames == {"pilot", "ghost"}

LoginRequest(username, password) == [username |-> username, password |-> password]

LoginResponse(req, stage, status, detail) ==
    [op |-> "login", stage |-> stage, username |-> req.username,
     password |-> req.password, status |-> status, detail |-> detail]

record_login_attempt(attempts, username, success) ==
    Append(attempts, [username |-> username, success |-> success, attempted_at |-> now])

\* the failed attempts of the last LOCKOUT_DURATION_MINUTES among these rows
get_failed_attempts_count(attempts, username) ==
    Cardinality({i \in DOMAIN attempts :
        /\ attempts[i].username = username
        /\ ~attempts[i].success
        /\ attempts[i].attempted_at > now - LOCKOUT_DURATION_MINUTES})

LockoutRows(username) == {l \in db.login_lockout : l.username = username}

\* a row whose locked_until is not yet past
is_user_locked_out(username) ==
    \E l \in LockoutRows(username) : ~(now > l.locked_until)

\* INSERT OR REPLACE on the primary key username
lock_user_account(lockout, username) ==
    {l \in lockout : l.username # username}
        \union {[username |-> username, locked_until |-> now + LOCKOUT_DURATION_MINUTES]}

\* deletes the lockout row only; the rows of login_attempts stay
reset_failed_attempts(lockout, username) == {l \in lockout : l.username # username}

\* first part of login, up to the await: a locked account is answered 429,
\* an expired lockout row is removed on the way
login_check(req) ==
    IF is_user_locked_out(req.username)
    THEN /\ resp' = LoginResponse(req, "check", 429, "locked")
         /\ UNCHANGED db
    ELSE /\ resp' = LoginResponse(req, "check", 0, "pending")
         /\ db' = [db EXCEPT !.login_lockout = @ \ LockoutRows(req.username),
                             !.logins = @ \union {req}]

LockAtThreshold(failed_count) == failed_count >= MAX_LOGIN_ATTEMPTS

\* second part of login, from the result of the user lookup to the answer
login_finish(req) ==
    LET user == {u \in UsersTable : u.username = req.username}
        failed == record_login_attempt(db.login_attempts, req.username, FALSE)
        failed_count == get_failed_attempts_count(failed, req.username)
        rest == db.logins \ {req}
    IN  IF user = {}
        THEN /\ resp' = LoginResponse(req, "finish", 401, "invalid")
             /\ db' = [db EXCEPT !.login_attempts = failed, !.logins = rest]
        ELSE IF ~(\E u \in user : verify_password(req.password, u.password_hash))
        THEN IF LockAtThreshold(failed_count)
             THEN /\ resp' = LoginResponse(req, "finish", 429, "too_many")
                  /\ db' = [db EXCEPT !.login_attempts = failed, !.logins = rest,
                                      !.login_lockout = lock_user_account(@, req.username)]
             ELSE /\ resp' = LoginResponse(req, "finish", 401, "invalid")
                  /\ db' = [db EXCEPT !.login_attempts = failed, !.logins = rest]
        ELSE /\ resp' = LoginResponse(req, "finish", 200, "token")
             /\ db' = [db EXCEPT
                    !.login_attempts = record_login_attempt(@, req.username, TRUE),
                    !.logins = rest,
                    !.login_lockout = reset_failed_attempts(@, req.username)]

(***************************************************************************)
(* SpecLogin: logins for the registered and for an unknown username, with  *)
(* the right and a wrong password, up to LoginMaxInFlight of them between   *)
(* their two parts, and the clock.                                         *)
(***************************************************************************)
LoginTickSteps == {LOCKOUT_DURATION_MINUTES, LOCKOUT_DURATION_MINUTES + 1}

LoginRequests ==
    {LoginRequest("pilot", "test123"), LoginRequest("pilot", "wrongpassword"),
     LoginRequest("ghost", "wrongpassword")}

LoginCheck ==
    \E req \in LoginRequests :
        /\ Cardinality(db.logins) < LoginMaxInFlight
        /\ Len(db.login_attempts) + Cardinality(db.logins) < LoginMaxAttempts
        /\ login_check(req)
        /\ UNCHANGED <<zones, audit_log, now, consumed>>

LoginFinish ==
    \E req \in db.logins :
        /\ login_finish(req)
        /\ UNCHANGED <<zones, audit_log, now, consumed>>

LoginTick ==
    \E d \in LoginTickSteps :
        /\ now + d <= LoginMaxTime
        /\ now' = now + d
        /\ resp' = NoResp
        /\ UNCHANGED <<zones, audit_log, consumed, db>>

NextLogin ==
    \/ LoginCheck
    \/ LoginFinish
    \/ LoginTick

SpecLogin == Init /\ [][NextLogin]_vars

(***************************************************************************)
(* Registration in three steps: init hands out a session and a recovery    *)
(* key, verify-key compares the key the user typed, complete creates the   *)
(* user.  The sessions live in the dictionary _recovery_key_sessions.      *)
(***************************************************************************)
SESSION_MINUTES == 10

\* the keys init can draw, as stored; the same as shown to the user
RecoveryKeys == {"AB12", "CD34"}
FormatKey(key) == IF key = "AB12" THEN "AB-12" ELSE "CD-34"

\* what the user can type, and what removing dashes and blanks and upper-
\* casing makes of it
TypedKeys == {"AB-12", "ab 12", "CD-34", "AB-13"}
_normalize_recovery_key(key) ==
    CASE key \in {"AB-12", "ab 12", "AB12"} -> "AB12"
      [] key \in {"CD-34", "CD34"} -> "CD34"
      [] OTHER -> "AB13"

_hash_recovery_key(key) == <<"hash", key>>

SessionsOf(session_id) ==
    {s \in db._recovery_key_sessions : s.session_id = session_id}

\* the sessions left once the expired ones are removed
_cleanup_expired_sessions ==
    {s \in db._recovery_key_sessions : ~(s.expires_at < now)}

RegisterResponse(op, session_id, status, detail) ==
    [op |-> op, session_id |-> session_id, status |-> status, detail |-> detail]

\* POST /auth/register/init: session_id and recovery_key are the random
\* values drawn by the handler
register_init(session_id, recovery_key) ==
    /\ db' = [db EXCEPT !._recovery_key_sessions =
                {s \in _cleanup_expired_sessions : s.session_id # session_id}
                    \union {[session_id |-> session_id,
                              key_raw |-> _normalize_recovery_key(FormatKey(recovery_key)),
                              key_hash |-> _hash_recovery_key(
                                  _normalize_recovery_key(FormatKey(recovery_key))),
                              expires_at |-> now + SESSION_MINUTES]}]
    /\ consumed' = consumed \ {<<"verified", session_id>>}
    /\ resp' = [RegisterResponse("register_init", session_id, 200, "")
                    EXCEPT !.detail = FormatKey(recovery_key)]

\* POST /auth/register/verify-key: nothing is stored on success
register_verify_key(session_id, recovery_key) ==
    LET live == {s \in _cleanup_expired_sessions : s.session_id = session_id}
        R(status, detail) ==
            RegisterResponse("register_verify_key", session_id, status, detail)
    IN  /\ db' = [db EXCEPT !._recovery_key_sessions = _cleanup_expired_sessions]
        /\ IF live = {}
           THEN resp' = R(400, "session") /\ UNCHANGED consumed
           ELSE IF \E s \in live : _normalize_recovery_key(recovery_key) # s.key_raw
           THEN resp' = R(400, "mismatch") /\ UNCHANGED consumed
           ELSE /\ resp' = R(200, "")
                /\ consumed' = consumed \union {<<"verified", session_id>>}

\* POST /auth/register/complete; captcha_ok is the answer of verify_captcha
register_complete(session_id, username, password, captcha_ok) ==
    LET live == {s \in _cleanup_expired_sessions : s.session_id = session_id}
        R(status, detail) ==
            RegisterResponse("register_complete", session_id, status, detail)
    IN  /\ UNCHANGED consumed
        /\ IF ~captcha_ok
           THEN /\ resp' = R(400, "captcha")
                /\ db' = [db EXCEPT !._recovery_key_sessions = _cleanup_expired_sessions]
           ELSE IF live = {}
           THEN /\ resp' = R(400, "session")
                /\ db' = [db EXCEPT !._recovery_key_sessions = _cleanup_expired_sessions]
           ELSE IF \E u \in db.users : u.username = username
           THEN /\ resp' = R(400, "username")
                /\ db' = [db EXCEPT !._recovery_key_sessions = _cleanup_expired_sessions]
           ELSE /\ resp' = R(200, "token")
                /\ db' = [db EXCEPT
                        !._recovery_key_sessions = _cleanup_expired_sessions \ live,
                        !.users = @ \union
                            {[username |-> username,
                              password_hash |-> hash_password(password),
                              recovery_key_hash |->
                                  (CHOOSE s \in live : TRUE).key_hash]}]

(***************************************************************************)
(* SpecRegister: sessions opened, keys typed and registrations completed   *)
(* in any order, and the clock past the life of a session.                 *)
(***************************************************************************)
SessionIds == 1 .. RegisterMaxSessions

RegisterInit ==
    \E session_id \in SessionIds, recovery_key \in RecoveryKeys :
        /\ SessionsOf(session_id) = {}
        /\ register_init(session_id, recovery_key)
        /\ UNCHANGED <<zones, audit_log, now>>

RegisterVerifyKey ==
    \E session_id \in SessionIds, recovery_key \in TypedKeys :
        /\ register_verify_key(session_id, recovery_key)
        /\ UNCHANGED <<zones, audit_log, now>>

RegisterComplete ==
    \E session_id \in SessionIds, username \in Usernames, captcha_ok \in BOOLEAN :
        /\ register_complete(session_id, username, "test123", captcha_ok)
        /\ Cardinality(db'.users) <= RegisterMaxUsers
        /\ UNCHANGED <<zones, audit_log, now>>

RegisterTick ==
    /\ now + SESSION_MINUTES + 1 <= RegisterMaxTime
    /\ now' = now + SESSION_MINUTES + 1
    /\ resp' = NoResp
    /\ UNCHANGED <<zones, audit_log, consumed, db>>

NextRegister ==
    \/ RegisterInit
    \/ RegisterVerifyKey
    \/ RegisterComplete
    \/ RegisterTick

SpecRegister == Init /\ [][NextRegister]_vars

(***************************************************************************)
(* The ConnectionManager: active_connections maps a user to the set of     *)
(* their socket ids, sids_to_users maps a socket id to its user (NULL      *)
(* while the socket is anonymous).                                         *)
(***************************************************************************)
\* d[key] = value, on a dictionary held as a function
DictSet(d, key, value) ==
    [k \in DOMAIN d \union {key} |-> IF k = key THEN value ELSE d[k]]

\* del d[key] / d.pop(key, None)
DictDel(d, key) == [k \in DOMAIN d \ {key} |-> d[k]]

\* d.get(key, set())
DictGet(d, key) == IF key \in DOMAIN d THEN d[key] ELSE {}

RegistryResponse(op, sid, user_id) ==
    [op |-> op, sid |-> sid, user |-> user_id, status |-> 200]

\* active_connections[user_id].add(sid), the set being created when missing
AddSid(active, sid, user_id) ==
    DictSet(active, user_id, DictGet(active, user_id) \union {sid})

\* ConnectionManager.connect
manager_connect(sid, user_id) ==
    db' = [db EXCEPT
        !.active_connections =
            IF user_id # NULL THEN AddSid(@, sid, user_id) ELSE @,
        !.sids_to_users = DictSet(@, sid, user_id)]

\* ConnectionManager.disconnect
manager_disconnect(sid) ==
    LET user_id == IF sid \in DOMAIN db.sids_to_users
                   THEN db.sids_to_users[sid] ELSE NULL
        left == DictGet(db.active_connections, user_id) \ {sid}
    IN  db' = [db EXCEPT
            !.sids_to_users = DictDel(@, sid),
            !.active_connections =
                IF user_id # NULL /\ user_id \in DOMAIN @
                THEN IF left = {} THEN DictDel(@, user_id)
                                  ELSE DictSet(@, user_id, left)
                ELSE @]

\* the Socket.IO event connect: the socket starts anonymous
connect(sid) ==
    /\ manager_connect(sid, NULL)
    /\ resp' = RegistryResponse("connect", sid, NULL)

\* the Socket.IO event disconnect
disconnect(sid) ==
    /\ manager_disconnect(sid)
    /\ resp' = RegistryResponse("disconnect", sid, NULL)

\* the Socket.IO event auth_user; user_id is data.get("user_id")
auth_user(sid, user_id) ==
    /\ resp' = RegistryResponse("auth_user", sid, user_id)
    /\ IF user_id # NULL
       THEN db' = [db EXCEPT
                !.sids_to_users = DictSet(@, sid, user_id),
                !.active_connections = AddSid(@, sid, user_id)]
       ELSE UNCHANGED db

(***************************************************************************)
(* SpecRegistry: sockets connect under fresh ids, send auth_user any       *)
(* number of times and disconnect.                                         *)
(***************************************************************************)
Sids == 1 .. RegistryMaxSids

Connected(sid) == sid \in DOMAIN db.sids_to_users

Connect ==
    \E sid \in Sids :
        /\ ~Connected(sid)
        /\ connect(sid)
        /\ UNCHANGED <<zones, audit_log, now, consumed>>

Disconnect ==
    \E sid \in Sids :
        /\ Connected(sid)
        /\ disconnect(sid)
        /\ UNCHANGED <<zones, audit_log, now, consumed>>

AuthUser ==
    \E sid \in Sids, user_id \in Users \union {NULL} :
        /\ Connected(sid)
        /\ auth_user(sid, user_id)
        /\ UNCHANGED <<zones, audit_log, now, consumed>>

NextRegistry ==
    \/ Connect
    \/ Disconnect
    \/ AuthUser

SpecRegistry == Init /\ [][NextRegistry]_vars

(***************************************************************************)
(* Structure of a GeoJSON geometry, ring by ring.  A coordinate is a       *)
(* corner of a convex polygon: coordinate 10 * k + c is corner c, counted  *)
(* around the boundary, of a figure k that lies apart from every other     *)
(* figure.  A Polygon has one ring (no holes), a MultiPolygon a sequence   *)
(* of such polygons.                                                       *)
(***************************************************************************)
PolygonJson(ring) == [type |-> "Polygon", coordinates |-> <<ring>>]
MultiPolygonJson(polys) == [type |-> "MultiPolygon", coordinates |-> polys]

\* shapely closes an open ring by repeating its first coordinate
LinearRing(ring) ==
    IF ring = <<>> \/ ring[1] = ring[Len(ring)] THEN ring ELSE Append(ring, ring[1])

\* shape() raises on a non-empty ring of fewer than 4 coordinates once closed
ShapeRaises(geom_json) ==
    LET short(poly) == poly[1] # <<>> /\ Len(LinearRing(poly[1])) < 4
    IN  IF geom_json.type = "Polygon"
        THEN short(geom_json.coordinates)
        ELSE \E i \in DOMAIN geom_json.coordinates : short(geom_json.coordinates[i])

\* the vertices of a closed ring: the closing coordinate and immediate
\* repetitions of a coordinate dropped
RECURSIVE Vertices(_)
Vertices(ring) ==
    IF Len(ring) <= 1 THEN <<>>
    ELSE IF ring[1] = ring[2] THEN Vertices(Tail(ring))
    ELSE <<ring[1]>> \o Vertices(Tail(ring))

\* the vertices go once around the figure, in either direction
GoesAround(v) ==
    LET k == Len(v)
        at(r, i) == v[((i + r - 2) % k) + 1]
    IN  \E r \in 1 .. k :
            \/ \A i \in 1 .. (k - 1) : at(r, i) < at(r, i + 1)
            \/ \A i \in 1 .. (k - 1) : at(r, i) > at(r, i + 1)

\* geom.is_valid for a ring on the corners of one figure: the boundary is a
\* simple closed line around a non-empty area; an empty ring is an empty,
\* valid polygon
RingIsValid(ring) ==
    \/ ring = <<>>
    \/ LET v == Vertices(LinearRing(ring))
       IN  /\ Len(v) >= 3
           /\ \A i, j \in DOMAIN v : i # j => v[i] # v[j]
           /\ GoesAround(v)

\* the polygons of a MultiPolygon lie in figures apart from each other
is_valid(geom_json) ==
    IF geom_json.type = "Polygon"
    THEN RingIsValid(geom_json.coordinates[1])
    ELSE \A i \in DOMAIN geom_json.coordinates :
            RingIsValid(geom_json.coordinates[i][1])

\* a coordinate occurs twice among the entries before the last one
DuplicateVertex(ring) ==
    \E i, j \in 1 .. (Len(ring) - 1) : i # j /\ ring[i] = ring[j]

Verdict(ok, error_message) == [is_valid |-> ok, error_message |-> error_message]

\* the verdict on polygon i and the following ones of a MultiPolygon
RECURSIVE MultiPolygonVerdict(_, _)
MultiPolygonVerdict(polys, i) ==
    IF i > Len(polys) THEN Verdict(TRUE, NoStr)
    ELSE IF Len(polys[i][1]) < 4 THEN Verdict(FALSE, "too_few_multi")
    ELSE IF DuplicateVertex(polys[i][1]) THEN Verdict(FALSE, "duplicate_multi")
    ELSE MultiPolygonVerdict(polys, i + 1)

\* shape() and is_valid come first, then the tests of the handler itself
_validate_geometry_structure_json(geom_json) ==
    IF ShapeRaises(geom_json) THEN Verdict(FALSE, "exception")
    ELSE IF ~is_valid(geom_json) THEN Verdict(FALSE, "invalid")
    ELSE IF geom_json.type = "Polygon"
    THEN LET coords == geom_json.coordinates[1]
         IN  IF Len(coords) < 4 THEN Verdict(FALSE, "too_few")
             ELSE IF DuplicateVertex(coords) THEN Verdict(FALSE, "duplicate")
             ELSE IF coords[1] # coords[Len(coords)] THEN Verdict(FALSE, "not_closed")
             ELSE Verdict(TRUE, NoStr)
    ELSE MultiPolygonVerdict(geom_json.coordinates, 1)

(***************************************************************************)
(* SpecStructure applies the structural validator to every ring of up to   *)
(* RingMaxLen entries on the corners of one figure, as a Polygon, as the   *)
(* only polygon of a MultiPolygon and as the first of two polygons; the     *)
(* validator keeps no state, each call is taken from the initial state.    *)
(***************************************************************************)
\* the corners of figure 0
RingCorners == 4

\* the rings of up to n entries on the corners of figure 0
Rings(n) ==
    UNION {[1 .. k -> 1 .. RingCorners] : k \in 0 .. n}

\* second polygons, on the corners of figure 1: a closed triangle, an open
\* one and one that repeats a corner
SecondRings == {<<11, 12, 13, 11>>, <<11, 12, 13, 14>>, <<11, 12, 12, 13, 11>>}

PolygonInputs(n) == {PolygonJson(r) : r \in Rings(n)}

MultiPolygonInputs(n) ==
    {MultiPolygonJson(<<(<<r>>)>>) : r \in Rings(n)}
        \union {MultiPolygonJson(<<(<<r>>), (<<q>>)>>) : r \in Rings(n), q \in SecondRings}

StructureResponse(geom_json, verdict) ==
    [op |-> "validate", geom_json |-> geom_json,
     is_valid |-> verdict.is_valid, error_message |-> verdict.error_message]

ValidatePolygon ==
    /\ resp = NoResp
    /\ \E g \in PolygonInputs(RingMaxLen) :
        /\ resp' = StructureResponse(g, _validate_geometry_structure_json(g))
        /\ UNCHANGED <<zones, audit_log, now, consumed, db>>

ValidateMultiPolygon ==
    /\ resp = NoResp
    /\ \E g \in MultiPolygonInputs(RingMaxLen) :
        /\ resp' = StructureResponse(g, _validate_geometry_structure_json(g))
        /\ UNCHANGED <<zones, audit_log, now, consumed, db>>

NextStructure ==
    \/ ValidatePolygon
    \/ ValidateMultiPolygon

SpecStructure == Init /\ [][NextStructure]_vars

(***************************************************************************)
(* SpecRestore exercises the CREATE budget: zones of both types, so that   *)
(* several are live at once, created and deleted before and after the      *)
(* creation grace window closes.                                           *)
(***************************************************************************)
RestoreCreateRequests ==
    [geometry : {Polygon(0, 6)}, zone_type : {"TAKEOFF", "LANDING"},
     description : {NoStr}]

RestoreZoneIds == 1 .. RestoreMaxZones

RestoreTick ==
    /\ now + GRACE_DELETE_MINUTES + 1 <= RestoreMaxTime
    /\ now' = now + GRACE_DELETE_MINUTES + 1
    /\ resp' = NoResp
    /\ UNCHANGED <<zones, audit_log, consumed, db>>

RestoreCreateZone ==
    \E req \in RestoreCreateRequests, u \in Users :
        create_zone(req, u) /\ Within(RestoreMaxZones, RestoreMaxAudit)
RestoreDeleteZone ==
    \E z \in RestoreZoneIds, u \in Users :
        delete_zone(z, u) /\ Within(RestoreMaxZones, RestoreMaxAudit)

NextRestore ==
    \/ RestoreCreateZone
    \/ RestoreDeleteZone
    \/ RestoreTick

SpecRestore == Init /\ [][NextRestore]_vars

(***************************************************************************)
(* SpecOrder follows a handler statement by statement.  resp holds the     *)
(* request being served: the statement it stands before (pc), the rows and *)
(* the audit entry its statements write, whether its connection was        *)
(* committed and the events it has emitted.  The handlers have no await    *)
(* before sio.emit, so no other request runs while one is being served.    *)
(***************************************************************************)
NoEntry == AuditEntry(NULL, "none", NULL, NoSnapshot, NoSnapshot)

\* a request as the handler sees it after its checks: refused with an
\* HTTPException (pc = 0) or admitted, standing before its first write (pc = 1)
Call(op, user_id, object_id, req, status, detail, pc, rows, entry) ==
    [op |-> op, user |-> user_id, object_id |-> object_id, req |-> req,
     status |-> status, detail |-> detail, event |-> "none",
     pc |-> pc, rows |-> rows, entry |-> entry,
     committed |-> FALSE, emitted |-> <<>>]

\* the statements of each handler from its first write to its return
create_zone_steps == <<"row", "audit", "commit", "emit", "return">>
checkout_object_steps == <<"row", "commit", "emit", "return">>
release_object_steps == <<"row", "commit", "emit", "return">>

\* mutant: the audit entry is inserted before the row is rewritten
update_zone_steps_audit_first == <<"audit", "row", "commit", "emit", "return">>

update_zone_steps == <<"row", "audit", "commit", "emit", "return">>

delete_zone_steps == <<"row", "audit", "commit", "emit", "return">>

Steps(op) ==
    CASE op = "create" -> create_zone_steps
      [] op = "checkout" -> checkout_object_steps
      [] op = "release" -> release_object_steps
      [] op = "update" -> update_zone_steps
      [] op = "delete" -> delete_zone_steps
      [] OTHER -> <<>>

\* the event each handler hands to sio.emit
EmitName(op) ==
    CASE op = "create" -> "zone_created"
      [] op = "checkout" -> "zone_locked"
      [] op = "release" -> "zone_released"
      [] op = "update" -> "zone_updated"
      [] op = "delete" -> "zone_deleted"
      [] OTHER -> "none"

\* no request is being served
Idle == resp.pc = 0 \/ resp.pc > Len(Steps(resp.op))

\* the request being served stands before a statement of this kind
StandsBefore(kind) ==
    /\ resp.pc \in DOMAIN Steps(resp.op)
    /\ Steps(resp.op)[resp.pc] = kind

Refuse(r) ==
    /\ resp' = r
    /\ UNCHANGED <<zones, audit_log, now, consumed, db>>

Admit(r) ==
    /\ resp' = r
    /\ UNCHANGED <<zones, audit_log, now, consumed, db>>

\* POST /zones, up to its first write
create_zone_call(req, user_id) ==
    LET R(status, detail) ==
            Call("create", user_id, NULL, req, status, detail, 0, zones, NoEntry)
        zone_type_id == _get_zone_type_id(req.zone_type)
    IN  /\ Idle
        /\ IF ~check_daily_quota(user_id, "CREATE")
           THEN Refuse(R(429, "quota"))
           ELSE IF ~IsPolygonType(req.geometry)
           THEN Refuse(R(422, "geometry"))
           ELSE IF ~_validate_geometry_structure(req.geometry)
           THEN Refuse(R(422, "structure"))
           ELSE IF zone_type_id = NULL
           THEN Refuse(R(422, "zone_type"))
           ELSE IF _geometry_intersects_existing(zones, req.geometry, zone_type_id, NULL)
           THEN Refuse(R(422, "overlap"))
           ELSE Admit(Call("create", user_id, Len(zones) + 1, req, 0, "", 1,
                    Append(zones,
                        NewZone(req.geometry, zone_type_id, req.description, user_id)),
                    AuditEntry(Len(zones) + 1, "CREATE", user_id,
                               NoSnapshot, RawGeometry(req.geometry))))

\* POST /zones/{id}/checkout, up to its first write
checkout_object_call(object_id, user_id) ==
    LET R(status, detail) ==
            Call("checkout", user_id, object_id, NoReq, status, detail, 0, zones, NoEntry)
    IN  /\ Idle
        /\ IF object_id \notin DOMAIN zones
           THEN Refuse(R(404, "not_found"))
           ELSE IF CheckoutBlocked(zones[object_id], user_id, now)
           THEN Refuse(R(403, "locked"))
           ELSE Admit(Call("checkout", user_id, object_id, NoReq, 0, "", 1,
                    [zones EXCEPT ![object_id].locked_by = user_id,
                                  ![object_id].lock_expires_at =
                                        now + LOCK_DURATION_MINUTES],
                    NoEntry))

\* POST /zones/{id}/release, up to its first write
release_object_call(object_id, user_id) ==
    LET R(status, detail) ==
            Call("release", user_id, object_id, NoReq, status, detail, 0, zones, NoEntry)
    IN  /\ Idle
        /\ IF object_id \notin DOMAIN zones
           THEN Refuse(R(404, "not_found"))
           ELSE IF NotLockedByUser(zones[object_id], user_id)
           THEN Refuse(R(403, "not_locked"))
           ELSE Admit(Call("release", user_id, object_id, NoReq, 0, "", 1,
                    [zones EXCEPT ![object_id].locked_by = NULL,
                                  ![object_id].lock_expires_at = NULL],
                    NoEntry))

\* PUT /zones/{id}, up to its first write
update_zone_call(object_id, req, user_id) ==
    LET R(status, detail) ==
            Call("update", user_id, object_id, req, status, detail, 0, zones, NoEntry)
    IN  /\ Idle
        /\ IF object_id \notin DOMAIN zones
           THEN Refuse(R(404, "not_found"))
           ELSE
           LET obj == zones[object_id]
               new_geometry == IF req.geometry # NoGeom THEN req.geometry
                               ELSE obj.geometry
               new_zone_type_id == IF req.zone_type # NoStr
                                   THEN _get_zone_type_id(req.zone_type)
                                   ELSE obj.zone_type_id
               new_description == IF req.description # NoStr
                                  THEN req.description ELSE obj.description
               before_snapshot == _audit_snapshot(obj.geometry,
                                      zone_type_code(obj.zone_type_id), obj.description)
               after_snapshot == _audit_snapshot(new_geometry,
                                      zone_type_code(new_zone_type_id), new_description)
               is_update_grace ==
                   _is_within_creation_grace(obj, user_id, GRACE_UPDATE_MINUTES)
           IN  IF UpdateNotLockedByUser(obj, user_id)
               THEN Refuse(R(403, "not_locked"))
               ELSE IF UpdateLockExpired(obj, now)
               THEN Refuse(R(409, "expired"))
               ELSE IF new_zone_type_id = NULL
               THEN Refuse(R(422, "zone_type"))
               ELSE IF req.geometry # NoGeom /\ ~IsPolygonType(req.geometry)
               THEN Refuse(R(422, "geometry"))
               ELSE IF req.geometry # NoGeom
                        /\ ~_validate_geometry_structure(req.geometry)
               THEN Refuse(R(422, "structure"))
               ELSE IF UpdateOverlaps(zones, object_id, req, new_zone_type_id)
               THEN Refuse(R(422, "overlap"))
               ELSE
               \E rb \in OrNone(RollbackRows(object_id)),
                  ch \in OrNone(ChainRows(object_id)) :
                   LET is_rollback == _is_update_rollback(rb, user_id, after_snapshot)
                       is_chain_grace == _is_update_chain_by_sequence(ch, user_id)
                       label == action_label(is_rollback, is_update_grace,
                                             is_chain_grace)
                   IN  IF ~UpdateAdmitted(user_id, is_rollback, is_update_grace,
                                          is_chain_grace)
                       THEN Refuse(R(429, "quota"))
                       ELSE Admit(Call("update", user_id, object_id, req, 0, label, 1,
                                [zones EXCEPT ![object_id] =
                                    [obj EXCEPT !.geometry = new_geometry,
                                                !.zone_type_id = new_zone_type_id,
                                                !.description = new_description,
                                                !.updated_by = user_id,
                                                !.updated_at = now,
                                                !.locked_by = NULL,
                                                !.lock_expires_at = NULL]],
                                AuditEntry(object_id, label, user_id,
                                           before_snapshot, after_snapshot)))

\* DELETE /zones/{id}, up to its first write
delete_zone_call(object_id, user_id) ==
    LET R(status, detail) ==
            Call("delete", user_id, object_id, NoReq, status, detail, 0, zones, NoEntry)
    IN  /\ Idle
        /\ IF object_id \notin DOMAIN zones
           THEN Refuse(R(404, "not_found"))
           ELSE
           LET obj == zones[object_id]
               grace_delete ==
                   _is_within_creation_grace(obj, user_id, GRACE_DELETE_MINUTES)
               label == delete_label(grace_delete)
               before_snapshot == _audit_snapshot(obj.geometry,
                                      zone_type_code(obj.zone_type_id), obj.description)
           IN  IF ~grace_delete /\ ~check_daily_quota(user_id, "DELETE")
               THEN Refuse(R(429, "quota"))
               ELSE Admit(Call("delete", user_id, object_id, NoReq, 0, label, 1,
                        [zones EXCEPT ![object_id].deleted_at = now,
                                      ![object_id].deleted_by = user_id,
                                      ![object_id].locked_by = NULL,
                                      ![object_id].lock_expires_at = NULL],
                        AuditEntry(object_id, label, user_id,
                                   before_snapshot, NoSnapshot)))

\* cursor.execute(INSERT INTO zones ...) or cursor.execute(UPDATE zones ...)
execute_row ==
    /\ StandsBefore("row")
    /\ zones' = resp.rows
    /\ consumed' =
            CASE resp.op = "checkout" -> consumed \ {<<resp.object_id, resp.user>>}
              [] resp.op = "update" -> consumed \cup {<<resp.object_id, resp.user>>}
              [] OTHER -> consumed
    /\ resp' = [resp EXCEPT !.pc = @ + 1]
    /\ UNCHANGED <<audit_log, now, db>>

\* cursor.execute(INSERT INTO audit_log ...)
execute_audit ==
    /\ StandsBefore("audit")
    /\ audit_log' = Append(audit_log, resp.entry)
    /\ resp' = [resp EXCEPT !.pc = @ + 1]
    /\ UNCHANGED <<zones, now, consumed, db>>

\* conn.commit()
conn_commit ==
    /\ StandsBefore("commit")
    /\ resp' = [resp EXCEPT !.pc = @ + 1, !.committed = TRUE]
    /\ UNCHANGED <<zones, audit_log, now, consumed, db>>

\* await sio.emit(...)
sio_emit ==
    /\ StandsBefore("emit")
    /\ resp' = [resp EXCEPT !.pc = @ + 1,
                            !.event = EmitName(resp.op),
                            !.emitted = Append(@, EmitName(resp.op))]
    /\ UNCHANGED <<zones, audit_log, now, consumed, db>>

\* await sio.emit(...) raises: the handler has no try around it, the
\* exception leaves the handler and the caller is answered 500
sio_emit_raises ==
    /\ StandsBefore("emit")
    /\ resp' = [resp EXCEPT !.pc = Len(Steps(resp.op)) + 1, !.status = 500]
    /\ UNCHANGED <<zones, audit_log, now, consumed, db>>

\* return ...Response(success=True, ...)
handler_return ==
    /\ StandsBefore("return")
    /\ resp' = [resp EXCEPT !.pc = @ + 1, !.status = 200]
    /\ UNCHANGED <<zones, audit_log, now, consumed, db>>

\* an admitted request is served only while the tables stay within the bounds
WithinCall(maxZones, maxAudit) ==
    /\ Len(resp'.rows) <= maxZones
    /\ Len(audit_log) + (IF resp'.entry = NoEntry THEN 0 ELSE 1) <= maxAudit

OrderZoneIds == 1 .. (OrderMaxZones + 1)

OrderCreateRequests ==
    [geometry : {Polygon(0, 6)}, zone_type : {"TAKEOFF"}, description : {NoStr}]

InitOrder ==
    /\ zones = <<>>
    /\ audit_log = <<>>
    /\ now = 1
    /\ resp = Call("none", NULL, NULL, NoReq, 0, "", 0, <<>>, NoEntry)
    /\ consumed = {}
    /\ db = InitDb

OrderCreateZone ==
    \E req \in OrderCreateRequests, u \in Users :
        create_zone_call(req, u) /\ WithinCall(OrderMaxZones, OrderMaxAudit)
OrderCheckoutObject ==
    \E z \in OrderZoneIds, u \in Users : checkout_object_call(z, u)
OrderReleaseObject ==
    \E z \in OrderZoneIds, u \in Users : release_object_call(z, u)
OrderUpdateZone ==
    \E z \in OrderZoneIds, req \in UpdateRequests, u \in Users :
        update_zone_call(z, req, u) /\ WithinCall(OrderMaxZones, OrderMaxAudit)
OrderDeleteZone ==
    \E z \in OrderZoneIds, u \in Users :
        delete_zone_call(z, u) /\ WithinCall(OrderMaxZones, OrderMaxAudit)

NextOrder ==
    \/ OrderCreateZone
    \/ OrderCheckoutObject
    \/ OrderReleaseObject
    \/ OrderUpdateZone
    \/ OrderDeleteZone
    \/ execute_row
    \/ execute_audit
    \/ conn_commit
    \/ sio_emit
    \/ handler_return

SpecOrder == InitOrder /\ [][NextOrder]_vars

\* the same handlers with a broadcast that may fail
NextBroadcast ==
    \/ NextOrder
    \/ sio_emit_raises

SpecBroadcast == InitOrder /\ [][NextBroadcast]_vars

(***************************************************************************)
(* Vocabulary of the properties                                            *)
(***************************************************************************)
\* the step just taken served request op on a zone that exists
OnZone(op) == resp'.op = op /\ resp'.object_id \in DOMAIN zones

Lock(rows, z) == <<rows[z].locked_by, rows[z].lock_expires_at>>
Unlocked == <<NULL, NULL>>

SameStore == zones' = zones /\ audit_log' = audit_log

(***************************************************************************)
(* Lock Manager                                                            *)
(***************************************************************************)
LockFieldsPaired ==
    \A z \in DOMAIN zones :
        /\ zones[z].locked_by \in Users \cup {NULL}
        /\ (zones[z].locked_by = NULL) <=> (zones[z].lock_expires_at = NULL)

CheckoutConflictStep ==
    OnZone("checkout") =>
        LET obj == zones[resp'.object_id]
        IN  (obj.locked_by # NULL /\ obj.locked_by # resp'.user
                /\ obj.lock_expires_at > now)
            => (resp'.status = 403 /\ zones' = zones)

\* C1: a zone has one holder field, set together with its expiry, and a
\* checkout of a zone held by another user whose expiry is still in the
\* future is answered 403 and leaves the zone as it was
C1_CheckoutConflict == []LockFieldsPaired /\ [][CheckoutConflictStep]_vars

C1_Witness ==
    /\ resp.op = "checkout" /\ resp.status = 403
    /\ resp.object_id \in DOMAIN zones
    /\ zones[resp.object_id].locked_by \notin {NULL, resp.user}
    /\ zones[resp.object_id].lock_expires_at > now

UpdateLockStep ==
    OnZone("update") =>
        LET obj == zones[resp'.object_id]
        IN  /\ resp'.status = 200 =>
                (obj.locked_by = resp'.user /\ obj.lock_expires_at >= now)
            /\ obj.locked_by # resp'.user => resp'.status = 403
            /\ (obj.locked_by = resp'.user /\ obj.lock_expires_at < now)
                => resp'.status = 409

\* C2: an update succeeds only for the stored holder with an expiry that has
\* not passed; a non-holder (also on an unlocked zone) gets 403, the holder
\* after the expiry gets 409
C2_UpdateNeedsLock == [][UpdateLockStep]_vars

C2_Witness ==
    /\ resp.op = "update" /\ resp.status = 409
    /\ resp.object_id \in DOMAIN zones
    /\ zones[resp.object_id].locked_by = resp.user
    /\ zones[resp.object_id].lock_expires_at < now

DeleteLockStep ==
    OnZone("delete") =>
        LET obj == zones[resp'.object_id]
        IN  \/ (obj.locked_by = resp'.user /\ obj.lock_expires_at >= now)
            \/ (resp'.status # 200 /\ zones' = zones)

\* C3: a delete succeeds only for the holder of an unexpired lock; any other
\* delete is refused and the zone is not tombstoned
C3_DeleteNeedsLock == [][DeleteLockStep]_vars

ExpiredAsAbsentStep ==
    \A z \in DOMAIN zones :
        (zones[z].lock_expires_at # NULL /\ zones[z].lock_expires_at < now
            /\ resp'.object_id = z)
        => /\ resp'.op = "checkout" => resp'.status = 200
           /\ resp'.op = "lock_status" => ~resp'.locked
           /\ resp'.op = "release" => resp'.status = 403
           /\ resp'.op = "update" => resp'.status \in {403, 409}

\* C4: a zone whose stored expiry is earlier than now is served as an
\* unlocked zone: any checkout succeeds, lock status says locked:false, a
\* release or an update by the former holder is refused
C4_ExpiredAsAbsent == [][ExpiredAsAbsentStep]_vars

CheckoutExactStep ==
    OnZone("checkout") =>
        LET z == resp'.object_id
            obj == zones[z]
        IN  /\ resp'.status = 200 <=>
                \/ obj.locked_by = NULL
                \/ obj.lock_expires_at < now
                \/ obj.locked_by = resp'.user
            /\ resp'.status = 200 =>
                /\ Lock(zones', z) = <<resp'.user, now + LOCK_DURATION_MINUTES>>
                /\ resp'.lock_expires_at = now + LOCK_DURATION_MINUTES

\* C5: a checkout succeeds exactly when the zone has no lock, its expiry is
\* in the past, or the caller holds it; it then stores and returns
\* holder = caller, expiry = now + 15 minutes
C5_CheckoutExact == [][CheckoutExactStep]_vars

ReleaseStep ==
    OnZone("release") =>
        LET z == resp'.object_id
        IN  IF zones[z].locked_by = resp'.user
            THEN resp'.status = 200 /\ Lock(zones', z) = Unlocked
            ELSE resp'.status = 403 /\ zones' = zones

\* C6: a release succeeds only for the stored holder and then clears holder
\* and expiry; otherwise it is answered 403 and changes nothing
C6_ReleaseByHolder == [][ReleaseStep]_vars

C6_Witness ==
    /\ resp.op = "release" /\ resp.status = 200
    /\ Lock(zones, resp.object_id) = Unlocked

SingleShotStep ==
    OnZone("update") =>
        /\ resp'.status = 200 => Lock(zones', resp'.object_id) = Unlocked
        /\ <<resp'.object_id, resp'.user>> \in consumed => resp'.status = 403

\* C7: a successful update clears the lock, and a further update by the same
\* user with no checkout of their own in between is answered 403
C7_SingleShot == [][SingleShotStep]_vars

C7_Witness ==
    /\ resp.op = "update" /\ resp.status = 403
    /\ <<resp.object_id, resp.user>> \in consumed

\* the holder as the spec reads it: an expiry in the past counts as no lock
EffectiveHolder(z) ==
    IF zones[z].lock_expires_at < now THEN NULL ELSE zones[z].locked_by

LockMachineStep(clearing) ==
    \A z \in DOMAIN zones :
        Lock(zones', z) # Lock(zones, z) =>
            /\ resp'.object_id = z
            /\ resp'.status = 200
            /\ \/ /\ resp'.op = "checkout"
                  /\ zones'[z].locked_by = resp'.user
                  /\ EffectiveHolder(z) \in {NULL, resp'.user}
               \/ /\ resp'.op \in clearing
                  /\ Lock(zones', z) = Unlocked

AmendedLockMachineStep ==
    \A z \in DOMAIN zones :
        Lock(zones', z) # Lock(zones, z) =>
            /\ resp'.object_id = z
            /\ resp'.status = 200
            /\ \/ /\ resp'.op = "checkout"
                  /\ Lock(zones', z) = <<resp'.user, now + LOCK_DURATION_MINUTES>>
                  /\ ~(zones[z].locked_by \notin {NULL, resp'.user}
                        /\ zones[z].lock_expires_at > now)
               \/ /\ resp'.op \in {"release", "update", "delete"}
                  /\ Lock(zones', z) = Unlocked

BeyondTolerance(g1, g2) ==
    Min(g1.hi, g2.hi) - Max(g1.lo, g2.lo) > 2 * BUFFER_DISTANCE + AREA_EPSILON

Live(z) == zones[z].deleted_at = NULL

\* C9: no two live zones of one type overlap beyond the tolerance
C9_NoSameTypeOverlap ==
    \A z1, z2 \in DOMAIN zones :
        (z1 # z2 /\ Live(z1) /\ Live(z2)
            /\ zones[z1].zone_type_id = zones[z2].zone_type_id)
        => ~BeyondTolerance(zones[z1].geometry, zones[z2].geometry)

\* a live zone other than self, of type type_id, overlaps g
Conflict(g, type_id, self) ==
    \E z \in DOMAIN zones :
        /\ z # self
        /\ Live(z)
        /\ zones[z].zone_type_id = type_id
        /\ BeyondTolerance(g, zones[z].geometry)

TypeIdOf(code) == CHOOSE id \in ZoneTypeIds \cup {NULL} :
    (id # NULL /\ zone_type_code(id) = code)
    \/ (id = NULL /\ \A t \in ZoneTypeIds : zone_type_code(t) # code)

TargetType(z, req) ==
    IF req.zone_type = NoStr THEN zones[z].zone_type_id ELSE TypeIdOf(req.zone_type)

\* earlier(op) tells which refusals may come before the overlap test
OverlapStep(createEarlier, updateEarlier) ==
    /\ (resp'.op = "create" /\ IsPolygonType(resp'.req.geometry)
            /\ Conflict(resp'.req.geometry, TypeIdOf(resp'.req.zone_type), NULL))
        => /\ SameStore
           /\ resp'.event = "none"
           /\ resp'.status \in {422} \cup createEarlier
           /\ resp'.status = 429 => ~check_daily_quota(resp'.user, "CREATE")
    /\ (OnZone("update") /\ IsPolygonType(resp'.req.geometry)
            /\ Conflict(resp'.req.geometry,
                        TargetType(resp'.object_id, resp'.req), resp'.object_id))
        => /\ SameStore
           /\ resp'.event = "none"
           /\ resp'.status \in {422} \cup updateEarlier
           /\ resp'.status \in {403, 409} =>
                \/ zones[resp'.object_id].locked_by # resp'.user
                \/ zones[resp'.object_id].lock_expires_at < now
    /\ (resp'.op = "create" /\ resp'.status = 422 /\ resp'.detail = "overlap")
        => Conflict(resp'.req.geometry, TypeIdOf(resp'.req.zone_type), NULL)
    /\ (OnZone("update") /\ resp'.status = 422 /\ resp'.detail = "overlap")
        => Conflict(resp'.req.geometry,
                    TargetType(resp'.object_id, resp'.req), resp'.object_id)

\* C10 as stated: a create or update whose geometry overlaps another live
\* zone of the same type is answered 422 and stores nothing; overlap with
\* other types, tombstoned zones or the zone itself never rejects
C10_OverlapRejected == [][OverlapStep({}, {})]_vars

\* C10 amended: the request stores nothing and is answered 422 unless an
\* earlier check refuses it first (429 for the CREATE quota on create, 403 or
\* 409 for the lock on update)
C10_OverlapRejectedAmended == [][OverlapStep({429}, {403, 409})]_vars

C10_Witness ==
    /\ resp.op = "update" /\ resp.status = 422 /\ resp.detail = "overlap"
    /\ resp.object_id \in DOMAIN zones
    /\ Conflict(resp.req.geometry, TargetType(resp.object_id, resp.req),
                resp.object_id)

(***************************************************************************)
(* Usage policy                                                            *)
(***************************************************************************)
ExemptTags == {"GRACE_UPDATE", "GRACE_UPDATE_CHAIN", "UNDO_UPDATE", "GRACE_DELETE"}

\* the audit entries of user u, of the current day, tagged with one of tags
TaggedToday(log, u, tags) ==
    Cardinality({i \in DOMAIN log :
        /\ log[i].user_id = u
        /\ log[i].action \in tags
        /\ log[i].timestamp \div MinutesPerDay = now \div MinutesPerDay})

\* u is the creator of zone z and the window of that many minutes is open
InCreationWindow(z, u, minutes) ==
    zones[z].created_by = u /\ now - zones[z].created_at <= minutes

\* entry i is an entry of zone z that no entry of z in S is later than
LatestOf(S, i, z) ==
    /\ i \in S
    /\ audit_log[i].object_id = z
    /\ \A j \in S : audit_log[j].object_id = z
            => audit_log[j].timestamp <= audit_log[i].timestamp

\* the state zone z would have after the update req
AfterState(z, req) ==
    [geometry |-> IF req.geometry = NoGeom THEN zones[z].geometry ELSE req.geometry,
     zone_type |-> IF req.zone_type = NoStr
                   THEN zone_type_code(zones[z].zone_type_id) ELSE req.zone_type,
     description |-> IF req.description = NoStr
                     THEN zones[z].description ELSE req.description]

\* a latest entry of z is an update of u
MayChain(z, u) ==
    \E i \in DOMAIN audit_log :
        /\ LatestOf(DOMAIN audit_log, i, z)
        /\ audit_log[i].user_id = u
        /\ audit_log[i].action \in UpdateActions

\* a latest UPDATE entry of z is u's, not older than 30 minutes, and req
\* restores the state before it
MayRollback(z, u, req) ==
    \E i \in DOMAIN audit_log :
        /\ LatestOf({j \in DOMAIN audit_log : audit_log[j].action = "UPDATE"}, i, z)
        /\ audit_log[i].user_id = u
        /\ now - audit_log[i].timestamp <= ROLLBACK_MINUTES
        /\ audit_log[i].before_data = AfterState(z, req)

\* the caller holds the lock of z and update_zone does not find it expired
HoldsLock(z, u) ==
    zones[z].locked_by = u /\ zones[z].lock_expires_at >= now

Refused429 == resp'.status = 429 /\ SameStore /\ resp'.event = "none"

QuotaMonotoneStep ==
    LET u == resp'.user
        z == resp'.object_id
        plain == TaggedToday(audit_log, u, ExemptTags) = 0
        used(tag) == TaggedToday(audit_log, u, {tag})
    IN  /\ (resp'.op = "create" /\ plain) =>
            /\ used("CREATE") >= DAILY_CREATE_LIMIT => Refused429
            /\ used("CREATE") < DAILY_CREATE_LIMIT => resp'.status # 429
        /\ (OnZone("update") /\ plain /\ HoldsLock(z, u)
                /\ ~InCreationWindow(z, u, GRACE_UPDATE_MINUTES)
                /\ ~MayChain(z, u) /\ ~MayRollback(z, u, resp'.req)) =>
            /\ used("UPDATE") >= DAILY_UPDATE_LIMIT => Refused429
            /\ used("UPDATE") < DAILY_UPDATE_LIMIT => resp'.status # 429
        /\ (OnZone("delete") /\ plain
                /\ ~InCreationWindow(z, u, GRACE_DELETE_MINUTES)) =>
            /\ used("DELETE") >= DAILY_DELETE_LIMIT => Refused429
            /\ used("DELETE") < DAILY_DELETE_LIMIT => resp'.status = 200

Appended(u, tags) ==
    /\ Len(audit_log') = Len(audit_log) + 1
    /\ audit_log'[Len(audit_log')].user_id = u
    /\ audit_log'[Len(audit_log')].action \in tags

UsageIsTagCount ==
    \A u \in Users :
        /\ get_daily_usage(u, "UPDATE") = TaggedToday(audit_log, u, {"UPDATE"})
        /\ get_daily_usage(u, "DELETE") = TaggedToday(audit_log, u, {"DELETE"})

UsageStep ==
    \A u \in Users :
        /\ (now' = now /\ audit_log' # audit_log) =>
            /\ get_daily_usage(u, "UPDATE")' =
                    get_daily_usage(u, "UPDATE")
                        + (IF Appended(u, {"UPDATE"}) THEN 1 ELSE 0)
            /\ get_daily_usage(u, "DELETE")' =
                    get_daily_usage(u, "DELETE")
                        + (IF Appended(u, {"DELETE"}) THEN 1 ELSE 0)
        /\ (OnZone("update") /\ resp'.user = u /\ resp'.status = 200
                /\ get_daily_usage(u, "UPDATE") >= DAILY_UPDATE_LIMIT) =>
            /\ Appended(u, {"GRACE_UPDATE", "GRACE_UPDATE_CHAIN", "UNDO_UPDATE"})
            /\ get_daily_usage(u, "UPDATE")' = get_daily_usage(u, "UPDATE")
        /\ (OnZone("delete") /\ resp'.user = u /\ resp'.status = 200
                /\ get_daily_usage(u, "DELETE") >= DAILY_DELETE_LIMIT) =>
            /\ Appended(u, {"GRACE_DELETE"})
            /\ get_daily_usage(u, "DELETE")' = get_daily_usage(u, "DELETE")

RestoreStep ==
    \A u \in Users :
        LET use == get_daily_usage(u, "CREATE")
        IN  /\ use = Max(0, TaggedToday(audit_log, u, {"CREATE"})
                            - TaggedToday(audit_log, u, {"GRACE_DELETE"}))
            /\ (OnZone("delete") /\ resp'.user = u
                    /\ InCreationWindow(resp'.object_id, u, GRACE_DELETE_MINUTES)) =>
                /\ Appended(u, {"GRACE_DELETE"})
                /\ get_daily_usage(u, "CREATE")' = Max(0, use - 1)
            /\ (OnZone("delete") /\ resp'.user = u
                    /\ ~InCreationWindow(resp'.object_id, u, GRACE_DELETE_MINUTES)) =>
                get_daily_usage(u, "CREATE")' = use
            /\ (resp'.op = "create" /\ resp'.user = u) =>
                /\ resp'.status = 429 <=> use >= DAILY_CREATE_LIMIT
                /\ (resp'.status = 200 /\ use = DAILY_CREATE_LIMIT - 1) =>
                        get_daily_usage(u, "CREATE")' = DAILY_CREATE_LIMIT

CreationGraceStep ==
    LET u == resp'.user
        z == resp'.object_id
    IN  /\ (OnZone("update") /\ HoldsLock(z, u)) =>
            IF InCreationWindow(z, u, GRACE_UPDATE_MINUTES)
            THEN /\ resp'.status # 429
                 /\ resp'.status = 200 => Appended(u, {"GRACE_UPDATE"})
            ELSE /\ ~Appended(u, {"GRACE_UPDATE"})
                 /\ (resp'.status = 200 /\ ~MayChain(z, u)
                        /\ ~MayRollback(z, u, resp'.req))
                     => Appended(u, {"UPDATE"})
        /\ OnZone("delete") =>
            IF InCreationWindow(z, u, GRACE_DELETE_MINUTES)
            THEN resp'.status = 200 /\ Appended(u, {"GRACE_DELETE"})
            ELSE /\ ~Appended(u, {"GRACE_DELETE"})
                 /\ resp'.status = 200 => Appended(u, {"DELETE"})

\* C14: an update (under the caller's lock) or a delete by the creator of
\* the zone inside the grace window is never refused by the quota and is
\* logged GRACE_UPDATE or GRACE_DELETE; by another user, or by the creator
\* after the window, it is never logged so: when admitted without another
\* exemption it is logged UPDATE or DELETE and so charged to the budget
C14_CreationGrace == [][CreationGraceStep]_vars

C14_Witness ==
    /\ resp.op = "delete" /\ resp.status = 200 /\ resp.detail = "GRACE_DELETE"
    /\ zones[resp.object_id].created_by = resp.user
    /\ TaggedToday(audit_log, resp.user, {"DELETE"}) >= DAILY_DELETE_LIMIT

\* the entries of zone z, in the order they were written
EntriesOf(z) == SelectSeq(audit_log, LAMBDA e : e.object_id = z)

\* the last entry written for zone z is an update by u
LastIsUpdateBy(z, u) ==
    /\ EntriesOf(z) # <<>>
    /\ EntriesOf(z)[Len(EntriesOf(z))].user_id = u
    /\ EntriesOf(z)[Len(EntriesOf(z))].action \in UpdateActions

\* the last entry written for zone z is an update by u from A to another
\* state, not older than 30 minutes, and req restores A
Reverts(z, u, req) ==
    LET last == EntriesOf(z)[Len(EntriesOf(z))]
    IN  /\ LastIsUpdateBy(z, u)
        /\ last.before_data # last.after_data
        /\ now - last.timestamp <= ROLLBACK_MINUTES
        /\ last.before_data = AfterState(z, req)

RollbackStep ==
    \A first, u \in Users :
        LET z == resp'.object_id
        IN  (OnZone("update") /\ resp'.user = u
                /\ HoldsLock(z, u) /\ Reverts(z, first, resp'.req)) =>
                IF u = first
                THEN /\ resp'.status = 200
                     /\ Appended(u, {"UNDO_UPDATE"})
                     /\ get_daily_usage(u, "UPDATE")' = get_daily_usage(u, "UPDATE")
                ELSE (resp'.status = 200
                        /\ ~InCreationWindow(z, u, GRACE_UPDATE_MINUTES))
                     => /\ Appended(u, {"UPDATE"})
                        /\ get_daily_usage(u, "UPDATE")' =
                                get_daily_usage(u, "UPDATE") + 1

\* C15: when the last entry of a zone is u's update from A to B, not older
\* than 30 minutes, the update back to A by u is admitted, logged
\* UNDO_UPDATE and leaves u's UPDATE usage as it was; made by another user
\* (who has no creation grace of their own) it is logged UPDATE and raises that
\* user's usage by one
C15_RollbackFree == [][RollbackStep]_vars

ChainStep ==
    \A u \in Users :
        LET z == resp'.object_id
        IN  (OnZone("update") /\ resp'.user = u
                /\ HoldsLock(z, u) /\ LastIsUpdateBy(z, u)) =>
                /\ resp'.status = 200
                /\ Appended(u, ExemptTags)
                /\ get_daily_usage(u, "UPDATE")' = get_daily_usage(u, "UPDATE")

\* C16: when the last entry of a zone is an update by u, a further update
\* of that zone by u is admitted and consumes no UPDATE unit: it is logged
\* under an exemption tag (GRACE_UPDATE_CHAIN, or the tag of the rollback or
\* of the creation grace when that exemption holds as well)
C16_ChainFree == [][ChainStep]_vars

(***************************************************************************)
(* Failure semantics                                                       *)
(***************************************************************************)
MutatingOps == {"create", "update", "delete", "checkout", "release"}

FailureStep ==
    (resp'.op \in MutatingOps /\ resp'.status # 200) =>
        /\ resp'.status \in {403, 404, 409, 422, 429}
        /\ SameStore
        /\ resp'.event = "none"

\* C17: a create, update, delete, checkout or release that is refused
\* (validation, lock, quota, unknown id) leaves the zone rows with their lock
\* fields and the audit log as they were and emits no event
C17_FailureWritesNothing == [][FailureStep]_vars

C17_Witness ==
    /\ resp.op = "delete" /\ resp.status = 429 /\ resp.event = "none"
    /\ resp.object_id \in DOMAIN zones
    /\ TaggedToday(audit_log, resp.user, {"DELETE"}) = DAILY_DELETE_LIMIT

(***************************************************************************)
(* Tombstones                                                              *)
(***************************************************************************)
Tombstoned(rows, z) == rows[z].deleted_at # NULL

TombstoneStep ==
    /\ \A z \in DOMAIN zones : z \in DOMAIN zones'
    /\ (OnZone("delete") /\ resp'.status = 200) =>
            LET row == zones'[resp'.object_id]
            IN  /\ row.deleted_at = now
                /\ row.deleted_by = resp'.user
                /\ row.locked_by = NULL
                /\ row.lock_expires_at = NULL

TombstonedUnlocked ==
    \A z \in DOMAIN zones : Tombstoned(zones, z) => zones[z].locked_by = NULL

\* C19: no row is ever removed, a successful delete sets the tombstone time
\* and the deleter and clears holder and expiry, and in every reachable
\* state a tombstoned zone has no lock holder
C19_TombstoneKeepsRowUnlocked == []TombstonedUnlocked /\ [][TombstoneStep]_vars

NotFoundStep ==
    /\ (resp'.op \in {"get", "checkout", "release", "update", "delete"}
            /\ (resp'.object_id \notin DOMAIN zones
                    \/ Tombstoned(zones, resp'.object_id)))
        => (resp'.status = 404 /\ SameStore)
    /\ resp'.op \in {"list", "by_coordinate"}
        => \A z \in resp'.data : ~Tombstoned(zones, z)

\* C20: get by id, checkout, release, update and delete of an unknown or
\* tombstoned zone id are answered 404 and change nothing; the list and the
\* lookup by coordinate never return a tombstoned zone
C20_TombstonedNotFound == [][NotFoundStep]_vars

(***************************************************************************)
(* Order of the side effects                                               *)
(***************************************************************************)
\* the statements the request being served has executed
Done(r) == IF r.pc = 0 THEN {} ELSE {Steps(r.op)[i] : i \in 1 .. (r.pc - 1)}

\* the request was admitted and has not been answered yet
Admitted(r) == r.pc >= 1 /\ r.status = 0

EventKinds ==
    {<<"create", "zone_created">>, <<"checkout", "zone_locked">>,
     <<"release", "zone_released">>, <<"update", "zone_updated">>,
     <<"delete", "zone_deleted">>}

OrderStep ==
    \* the row is written by an admitted request, before anything else
    /\ zones' # zones =>
        /\ Admitted(resp) /\ Done(resp) = {}
        /\ zones' = resp.rows /\ audit_log' = audit_log
        /\ resp'.emitted = <<>> /\ ~resp'.committed
        /\ resp.op = "update" => HoldsLock(resp.object_id, resp.user)
        /\ resp.op = "create" => check_daily_quota(resp.user, "CREATE")
    \* the audit entry is appended after the row and before the commit
    /\ audit_log' # audit_log =>
        /\ Admitted(resp) /\ Done(resp) = {"row"}
        /\ audit_log' = Append(audit_log, resp.entry) /\ zones' = zones
        /\ resp'.emitted = <<>> /\ ~resp'.committed
    \* the commit follows the writes
    /\ (resp'.committed /\ ~resp.committed) =>
        /\ SameStore /\ zones = resp.rows
        /\ resp.entry # NoEntry => "audit" \in Done(resp)
        /\ resp'.emitted = <<>>
    \* the event follows the commit, and there is one of the matching kind
    /\ Len(resp'.emitted) <= 1
    /\ resp'.emitted # <<>> =>
        /\ resp'.committed /\ (resp'.emitted # resp.emitted => resp.committed)
        /\ <<resp'.op, resp'.emitted[1]>> \in EventKinds
        /\ SameStore
    \* an answered request: committed with its event, or refused without
    /\ resp'.status = 200 => resp'.committed /\ Len(resp'.emitted) = 1
    /\ resp'.status \notin {0, 200} =>
        ~resp'.committed /\ resp'.emitted = <<>> /\ SameStore

Served(op, z, u) ==
    resp'.op = op /\ resp'.object_id = z /\ resp'.user = u

SerializedStep ==
    \A z \in DOMAIN zones, u \in Users :
        \* u becomes the holder of z, or renews the lock, by a successful
        \* checkout of u and by nothing else
        /\ (zones'[z].locked_by = u /\ Lock(zones', z) # Lock(zones, z)) =>
            Served("checkout", z, u) /\ resp'.status = 200
        \* a successful update was made by the holder and ends the tenure, so
        \* that no update of another user lies inside a tenure that ends with
        \* a successful update of its holder
        /\ (Served("update", z, u) /\ resp'.status = 200) =>
            /\ HoldsLock(z, u)
            /\ Lock(zones', z) = Unlocked
            /\ \A v \in Users \ {u} : zones[z].locked_by # v
        \* the losing writer is refused and overwrites nothing
        /\ (Served("update", z, u)
                /\ (zones[z].locked_by # u \/ zones[z].lock_expires_at < now)) =>
            /\ resp'.status \in {403, 409}
            /\ SameStore

\* C21: the lock serializes the writers of a zone.  A user becomes holder
\* only by their own successful checkout, an update succeeds only for the
\* holder and ends the tenure, hence between a user's latest successful
\* checkout and their successful update no other user's update of the zone
\* succeeds; an update by a user who is not the holder, or whose lock has
\* expired, is answered 403 or 409 and leaves the store as it was
C21_WritersSerialized == [][SerializedStep]_vars

C21_Witness ==
    /\ resp.op = "update" /\ resp.status = 403
    /\ resp.object_id \in DOMAIN zones
    /\ zones[resp.object_id].locked_by \in Users \ {resp.user}
    /\ zones[resp.object_id].lock_expires_at >= now
    /\ \E i \in DOMAIN audit_log :
        audit_log[i].object_id = resp.object_id /\ audit_log[i].action = "CREATE"

\* the entries of user u written on the day of now under one of the tags
ChargedToday(u, tags) == TaggedToday(audit_log, u, tags)

ReferencedByLiveZone(code) ==
    \E id \in DOMAIN db.zone_types, z \in DOMAIN zones :
        /\ db.zone_types[id].code = code /\ db.zone_types[id].deleted_at = NULL
        /\ zones[z].zone_type_id = id /\ zones[z].deleted_at = NULL

\* row after differs from row before in its tombstone columns at most
SameButTombstone(before, after) ==
    [after EXCEPT !.deleted_at = NULL, !.deleted_by = NULL]
        = [before EXCEPT !.deleted_at = NULL, !.deleted_by = NULL]

TypeDeleteStep ==
    /\ Len(db'.zone_types) >= Len(db.zone_types)
    /\ resp'.op = "delete_type" =>
        /\ ReferencedByLiveZone(resp'.payload.code) =>
            /\ resp'.status # 200
            /\ db' = db /\ SameStore
        /\ resp'.status # 200 => db' = db
        /\ resp'.status = 200 =>
            /\ SameStore
            /\ DOMAIN db'.zone_types = DOMAIN db.zone_types
            /\ \A id \in DOMAIN db.zone_types :
                IF db.zone_types[id].code = resp'.payload.code
                THEN /\ SameButTombstone(db.zone_types[id], db'.zone_types[id])
                     /\ db'.zone_types[id].deleted_at # NULL
                ELSE db'.zone_types[id] = db.zone_types[id]

\* C23: the deletion of a zone type that a live zone uses is refused and
\* leaves the type as it was; a deletion that succeeds sets the tombstone
\* columns of the type's row and nothing else, and no step removes a row of
\* zone_types
C23_TypeDeleteGuarded == [][TypeDeleteStep]_vars

C23_Witness ==
    /\ resp.op = "delete_type" /\ resp.status = 400
    /\ ReferencedByLiveZone(resp.payload.code)
    /\ \E id \in DOMAIN db.zone_types : db.zone_types[id].deleted_at # NULL

(***************************************************************************)
(* Audit log                                                               *)
(***************************************************************************)
\* the tags each zone operation may resolve to
TagsOf(op) ==
    CASE op = "create" -> {"CREATE"}
      [] op = "update" -> {"UPDATE", "GRACE_UPDATE", "GRACE_UPDATE_CHAIN", "UNDO_UPDATE"}
      [] op = "delete" -> {"DELETE", "GRACE_DELETE"}
      [] OTHER -> {}

AppendOnlyStep ==
    /\ Len(audit_log') >= Len(audit_log)
    /\ SubSeq(audit_log', 1, Len(audit_log)) = audit_log
    /\ IF resp'.op \in {"create", "update", "delete"} /\ resp'.status = 200
       THEN /\ Len(audit_log') = Len(audit_log) + 1
            /\ audit_log'[Len(audit_log')].object_id = resp'.object_id
            /\ audit_log'[Len(audit_log')].user_id = resp'.user
            /\ audit_log'[Len(audit_log')].action \in TagsOf(resp'.op)
            /\ resp'.op \in {"update", "delete"} =>
                    audit_log'[Len(audit_log')].action = resp'.detail
       ELSE audit_log' = audit_log

BroadcastFailureStep ==
    \* the committed mutation stays whatever becomes of the broadcast
    /\ resp.committed /\ resp'.op = resp.op /\ resp'.pc > resp.pc => SameStore
    \* and its caller is not answered with a failure
    /\ resp'.committed => resp'.status \in {0, 200}

\* C25: when the broadcast of a committed create, update, delete, checkout
\* or release fails, the mutation stays committed and the caller still
\* receives the success result
C25_BroadcastFailureTolerated == [][BroadcastFailureStep]_vars

(***************************************************************************)
(* End-to-end scenario                                                     *)
(***************************************************************************)
\* no live zone of the type with this code stands in the way of a new one
NoLiveZoneOf(code) ==
    \A z \in DOMAIN zones :
        zones[z].deleted_at # NULL \/ zone_type_code(zones[z].zone_type_id) # code

\* every step of the scenario, taken by user U in the situation the scenario
\* has led to, ends as the scenario says; fresh tells whether the creation of
\* the type presupposes that no live type has the code
ScenarioStep(fresh) ==
    \A U \in Users :
        \* U creates the zone type TAKEOFF
        /\ (resp'.op = "create_type" /\ resp'.user = U
                /\ NormCode(resp'.payload.code) = "TAKEOFF"
                /\ (fresh => LiveTypes("TAKEOFF") = {})) =>
            /\ resp'.status = 200
            /\ LiveTypes("TAKEOFF")' # {}
        \* U, who has done nothing yet, creates a zone of it: usage goes
        \* from 0 to 1
        /\ (resp'.op = "create" /\ resp'.user = U
                /\ resp'.req.zone_type = "TAKEOFF" /\ LiveTypes("TAKEOFF") # {}
                /\ NoLiveZoneOf("TAKEOFF")
                /\ \A i \in DOMAIN audit_log : audit_log[i].user_id # U
                /\ get_daily_usage(U, "CREATE") = 0) =>
            /\ resp'.status = 200
            /\ get_daily_usage(U, "CREATE")' = 1
        \* U checks the zone out while nobody holds it
        /\ (OnZone("checkout") /\ resp'.user = U
                /\ Lock(zones, resp'.object_id) = Unlocked) =>
            /\ resp'.status = 200
            /\ zones'[resp'.object_id].locked_by = U
            /\ zones'[resp'.object_id].lock_expires_at > now
        \* a second user's checkout while U holds the zone: 403 naming U
        /\ (OnZone("checkout") /\ resp'.user # U
                /\ zones[resp'.object_id].locked_by = U
                /\ zones[resp'.object_id].lock_expires_at > now) =>
            /\ resp'.status = 403
            /\ resp'.locked_by = U
            /\ zones' = zones
        \* U, creator and holder, updates the description only
        /\ (OnZone("update") /\ resp'.user = U
                /\ HoldsLock(resp'.object_id, U)
                /\ InCreationWindow(resp'.object_id, U, GRACE_UPDATE_MINUTES)
                /\ resp'.req.geometry = NoGeom /\ resp'.req.zone_type = NoStr) =>
            /\ resp'.status = 200
            /\ Lock(zones', resp'.object_id) = Unlocked
        \* U deletes the zone, live, inside the grace window: usage is back
        \* to 0
        /\ (OnZone("delete") /\ resp'.user = U
                /\ ~Tombstoned(zones, resp'.object_id)
                /\ InCreationWindow(resp'.object_id, U, GRACE_DELETE_MINUTES)) =>
            /\ resp'.status = 200
            /\ Tombstoned(zones', resp'.object_id)
            /\ get_daily_usage(U, "CREATE") <= 1 => get_daily_usage(U, "CREATE")' = 0

RingsOf(geom_json) ==
    IF geom_json.type = "Polygon"
    THEN {geom_json.coordinates[i] : i \in DOMAIN geom_json.coordinates}
    ELSE UNION {{geom_json.coordinates[p][i] : i \in DOMAIN geom_json.coordinates[p]} :
                    p \in DOMAIN geom_json.coordinates}

WellFormedRing(ring) ==
    /\ Len(ring) >= 4
    /\ ring[1] = ring[Len(ring)]
    /\ ~DuplicateVertex(ring)

\* C27: the structural validator accepts a Polygon or MultiPolygon only if
\* every ring has at least 4 entries, is closed (first entry = last entry)
\* and repeats no coordinate among the entries before the closing one; a
\* geometry with a ring that breaks one of these is rejected with a message
C27_RingsWellFormed ==
    (resp.op = "validate" /\ \E ring \in RingsOf(resp.geom_json) : ~WellFormedRing(ring)) =>
        /\ ~resp.is_valid
        /\ resp.error_message # NoStr

(***************************************************************************)
(* Login lockout                                                           *)
(***************************************************************************)
Registered(username) == \E u \in UsersTable : u.username = username

\* the instants at which the failed attempts of the username reached the
\* threshold: a failed attempt that is at least the MAX_LOGIN_ATTEMPTS-th of
\* the LOCKOUT_DURATION_MINUTES before it
LockSetAt(username) ==
    LET a == db.login_attempts
        failed(i) == a[i].username = username /\ ~a[i].success
    IN  {a[i].attempted_at : i \in {k \in DOMAIN a :
            /\ failed(k)
            /\ Cardinality({j \in 1 .. k :
                    /\ failed(j)
                    /\ a[j].attempted_at > a[k].attempted_at - LOCKOUT_DURATION_MINUTES})
                 >= MAX_LOGIN_ATTEMPTS}}

\* a lock set at most LOCKOUT_DURATION_MINUTES ago
LockRunning(username) ==
    \E t \in LockSetAt(username) : now <= t + LOCKOUT_DURATION_MINUTES

LockoutStep ==
    \A username \in {n \in Usernames : Registered(n)} :
        \* the attempt that reaches the threshold is answered 429
        /\ (resp'.op = "login" /\ resp'.stage = "finish" /\ resp'.username = username
                /\ LockSetAt(username)' # LockSetAt(username)) =>
            resp'.status = 429
        \* a login that arrives while the lock runs is answered 429, whatever
        \* its password
        /\ (resp'.op = "login" /\ resp'.stage = "check" /\ resp'.username = username
                /\ LockRunning(username)) =>
            resp'.status = 429
        \* once no lock runs any more, login is possible again
        /\ (resp'.op = "login" /\ resp'.stage = "check" /\ resp'.username = username
                /\ ~LockRunning(username)) =>
            resp'.status # 429
        /\ (resp'.op = "login" /\ resp'.stage = "finish" /\ resp'.username = username
                /\ ~LockRunning(username)
                /\ \E u \in UsersTable :
                       u.username = username
                           /\ verify_password(resp'.password, u.password_hash)) =>
            resp'.status = 200

\* C28: after 5 failed password attempts for a username within 15 minutes the
\* account is locked: the attempt that reaches the threshold and every later
\* login for that username, whatever the password, is answered 429 until 15
\* minutes after the lock was set; after that login is possible again
C28_LockoutAfterFiveFailures == [][LockoutStep]_vars

(***************************************************************************)
(* Rollback and chain detection                                            *)
(***************************************************************************)
\* the update-class entries of zone z, in the order they were written
UpdateEntriesOf(z) == SelectSeq(EntriesOf(z), LAMBDA e : e.action \in UpdateActions)

\* the most recent update-class entry of z was made by u at most 30 minutes
\* ago and req brings the zone back to that entry's before-state
RevertsUpdateClass(z, u, req) ==
    LET es == UpdateEntriesOf(z)
    IN  /\ es # <<>>
        /\ es[Len(es)].user_id = u
        /\ now - es[Len(es)].timestamp <= ROLLBACK_MINUTES
        /\ es[Len(es)].before_data = AfterState(z, req)

RollbackExactStep ==
    \A u \in Users :
        (OnZone("update") /\ resp'.user = u /\ resp'.status = 200) =>
            (resp'.detail = "UNDO_UPDATE"
                <=> RevertsUpdateClass(resp'.object_id, u, resp'.req))

\* C29: an admitted update of zone z by user u is tagged UNDO_UPDATE exactly
\* when the most recent update-class entry of z (UPDATE, GRACE_UPDATE,
\* GRACE_UPDATE_CHAIN or UNDO_UPDATE) was made by u at most 30 minutes
\* earlier and the proposed after-state equals that entry's before-state
C29_RollbackExactly == [][RollbackExactStep]_vars

ChainExactStep ==
    \A u \in Users :
        LET z == resp'.object_id
        IN  (OnZone("update") /\ resp'.user = u /\ HoldsLock(z, u)) =>
                /\ LastIsUpdateBy(z, u) =>
                    /\ resp'.status # 429
                    /\ resp'.status = 200 =>
                        resp'.detail \in {"GRACE_UPDATE_CHAIN", "UNDO_UPDATE", "GRACE_UPDATE"}
                /\ ~LastIsUpdateBy(z, u) => resp'.detail # "GRACE_UPDATE_CHAIN"

\* C30: the chain exemption applies exactly when the last entry written for
\* the zone, of any action, is an update-class entry by the same user,
\* however old: then the update is not refused for quota and is logged under
\* an exemption tag; when the last entry is another user's update or the
\* CREATE of the zone, the update is never logged GRACE_UPDATE_CHAIN
C30_ChainExactly == [][ChainExactStep]_vars

(***************************************************************************)
(* Ties between audit entries of one second                                *)
(***************************************************************************)
\* the entry of S inserted last (0 when S is empty)
LastInserted(S) == IF S = {} THEN 0 ELSE CHOOSE i \in S : \A j \in S : j <= i

\* the tag of an update of zone z by u when, among entries of equal
\* timestamp, the one inserted last counts as the most recent
LabelByInsertion(z, u, req) ==
    action_label(
        _is_update_rollback(LastInserted(RollbackRows(z)), u,
            _audit_snapshot(AfterState(z, req).geometry, AfterState(z, req).zone_type,
                            AfterState(z, req).description)),
        _is_within_creation_grace(zones[z], u, GRACE_UPDATE_MINUTES),
        _is_update_chain_by_sequence(LastInserted(ChainRows(z)), u))

TieStep ==
    \A u \in Users :
        (OnZone("update") /\ resp'.user = u /\ HoldsLock(resp'.object_id, u)) =>
            /\ resp'.status = 200 =>
                resp'.detail = LabelByInsertion(resp'.object_id, u, resp'.req)
            /\ resp'.status = 429 =>
                LabelByInsertion(resp'.object_id, u, resp'.req) = "UPDATE"

\* C31: among audit entries of a zone with the same timestamp the one
\* inserted later is the most recent for chain and rollback detection: the
\* tag of an admitted update, and whether an update is refused for quota,
\* is the one the audit history determines under that rule
C31_TiesByInsertion == [][TieStep]_vars

(***************************************************************************)
(* Locks expire by themselves                                              *)
(***************************************************************************)
LockNotForeverStep ==
    \A u, v \in Users :
        LET z == resp'.object_id
        IN  (OnZone("checkout") /\ resp'.user = v /\ u # v
                /\ zones[z].locked_by = u
                /\ now >= zones[z].lock_expires_at) =>
                /\ resp'.status = 200
                /\ Lock(zones', z) = <<v, now + LOCK_DURATION_MINUTES>>

UpdateFrameStep ==
    (OnZone("update") /\ resp'.status = 200) =>
        LET z == resp'.object_id
            req == resp'.req
            old == zones[z]
            new == zones'[z]
        IN  /\ new.geometry = IF req.geometry = NoGeom THEN old.geometry ELSE req.geometry
            /\ new.zone_type_id = IF req.zone_type = NoStr THEN old.zone_type_id
                                  ELSE _get_zone_type_id(req.zone_type)
            /\ new.description = IF req.description = NoStr THEN old.description
                                 ELSE req.description
            /\ new.updated_by = resp'.user /\ new.updated_at = now
            /\ new.locked_by = NULL /\ new.lock_expires_at = NULL
            /\ new.created_by = old.created_by /\ new.created_at = old.created_at
            /\ new.deleted_by = old.deleted_by /\ new.deleted_at = old.deleted_at
            /\ DOMAIN zones' = DOMAIN zones
            /\ \A y \in DOMAIN zones \ {z} : zones'[y] = zones[y]

\* C33: a successful update writes the supplied geometry, type and
\* description, the updater id, the update time and the cleared lock; a
\* field the request omits keeps its stored value, creator, creation time
\* and tombstone fields stay, and no other zone changes
C33_UpdateFrame == [][UpdateFrameStep]_vars

\* an update that supplied a type only went through on a zone that had a
\* description
C33_Witness ==
    /\ resp.op = "update" /\ resp.status = 200
    /\ resp.req.geometry = NoGeom /\ resp.req.description = NoStr
    /\ resp.req.zone_type = "LANDING"
    /\ zones[resp.object_id].description = "d1"
    /\ zone_type_code(zones[resp.object_id].zone_type_id) = "LANDING"

(***************************************************************************)
(* Failed attempts after a successful login                                *)
(***************************************************************************)
\* the failed attempts of the username recorded after its last successful
\* login
FailedSinceSuccess(attempts, username) ==
    LET mine == {i \in DOMAIN attempts : attempts[i].username = username}
        wins == {i \in mine : attempts[i].success}
    IN  Cardinality({i \in mine : ~attempts[i].success /\ \A w \in wins : w < i})

ResetStep ==
    \A username \in {n \in Usernames : Registered(n)} :
        (resp'.op = "login" /\ resp'.stage = "finish" /\ resp'.username = username
            /\ resp'.status = 429) =>
            FailedSinceSuccess(db'.login_attempts, username) >= MAX_LOGIN_ATTEMPTS

\* C34: a successful login resets the count of failed attempts of the
\* username: a failed attempt locks the account (429) only when it is at
\* least the 5th failed attempt since the last successful login
C34_SuccessResetsCount == [][ResetStep]_vars

(***************************************************************************)
(* Registration                                                            *)
(***************************************************************************)
RegistrationStep ==
    \A session_id \in SessionIds :
        (resp'.op = "register_complete" /\ resp'.session_id = session_id
            /\ <<"verified", session_id>> \notin consumed) =>
            /\ resp'.status # 200
            /\ db'.users = db.users

\* C35: the completion of a registration succeeds only on a session whose
\* recovery key was verified by the verify-key step; on a session that was
\* opened by init and never verified it is refused and creates no user
C35_CompleteNeedsVerifiedKey == [][RegistrationStep]_vars

(***************************************************************************)
(* Zones and the tombstones of zone types                                  *)
(***************************************************************************)
TypeIsLive(zone_type_id) ==
    /\ zone_type_id \in DOMAIN db.zone_types
    /\ db.zone_types[zone_type_id].deleted_at = NULL

\* C36: every zone that is not deleted references a zone type that is not
\* deleted; a creation or a change of type naming the code of a deleted type
\* is answered 422
C36_LiveZoneHasLiveType ==
    \A z \in DOMAIN zones : zones[z].deleted_at = NULL => TypeIsLive(zones[z].zone_type_id)

(***************************************************************************)
(* One deletion per zone                                                   *)
(***************************************************************************)
DeleteEntriesOf(z) ==
    {i \in DOMAIN audit_log :
        audit_log[i].object_id = z /\ audit_log[i].action \in {"DELETE", "GRACE_DELETE"}}

\* C37: a zone is deleted at most once: the audit log never holds more than
\* one DELETE or GRACE_DELETE entry of one zone
C37_DeletedAtMostOnce ==
    \A z \in DOMAIN zones : Cardinality(DeleteEntriesOf(z)) <= 1

(***************************************************************************)
(* The lock in the representation of a zone                                *)
(***************************************************************************)
ReportsLock(z) == serialize_zone(zones[z]).lock # NoLock

LockPassed(z) ==
    serialize_zone(zones[z]).lock.lock_expires_at # NULL
        /\ serialize_zone(zones[z]).lock.lock_expires_at < now

ViewStep ==
    /\ resp'.op \in {"get", "list", "by_coordinate"} =>
            \A z \in resp'.data : ReportsLock(z)' => ~LockPassed(z)'
    /\ \A z \in ReadZoneIds :
            (resp'.op \in {"create", "update"} /\ resp'.status = 200
                /\ resp'.object_id = z) => (ReportsLock(z)' => ~LockPassed(z)')

\* C38: the representation of a zone answered by the reads (one zone, the
\* list, by coordinate) and carried by the events zone_created and
\* zone_updated reports a lock only while the expiry of the lock has not
\* passed, as the lock status does
C38_ViewReportsLiveLockOnly == [][ViewStep]_vars

(***************************************************************************)
(* One judgement on the life of a lock                                     *)
(***************************************************************************)
\* a checkout that takes the zone from another holder judged the lock dead;
\* the update precondition and the lock status judge it dead as well
LockJudgementStep ==
    \A z \in ZoneIds :
        (resp'.op = "checkout" /\ resp'.object_id = z /\ resp'.status = 200
            /\ z \in DOMAIN zones
            /\ zones[z].locked_by # NULL /\ zones[z].locked_by # resp'.user) =>
            /\ UpdateLockExpired(zones[z], now)
            /\ StatusLockExpired(zones[z], now)

\* C39: at every instant, the instant of the expiry included, the checkout,
\* the precondition of the update and the lock status agree on whether a
\* lock is live
C39_OneLockJudgement == [][LockJudgementStep]_vars

(***************************************************************************)
(* The connection registry                                                 *)
(***************************************************************************)
SidsOfUsers ==
    UNION {db.active_connections[u] : u \in DOMAIN db.active_connections}

\* C40: after connect, auth_user and disconnect, every socket id held under
\* a user in active_connections is registered in sids_to_users and mapped to
\* that user, no user holds an empty set, and a socket id that was just
\* disconnected is in neither dictionary
C40_RegistryConsistent ==
    /\ \A u \in DOMAIN db.active_connections :
        /\ db.active_connections[u] # {}
        /\ \A sid \in db.active_connections[u] :
            sid \in DOMAIN db.sids_to_users /\ db.sids_to_users[sid] = u
    /\ resp.op = "disconnect" =>
            resp.sid \notin DOMAIN db.sids_to_users /\ resp.sid \notin SidsOfUsers

====
